---- MODULE Spec2Model ----
(***************************************************************************)
(* Flying-phase determination: the weather element collection              *)
(* (scripts/weather_elements.py) and the phase decision engine             *)
(* (scripts/flyingphase.py).                                               *)
(*                                                                         *)
(* Conventions of the model                                                *)
(*   - Python None for an optional integer is the sentinel None; every     *)
(*     comparison the code guards with "is not None" is guarded here too.  *)
(*   - Python None for an optional dict is the record Absent.              *)
(*   - Floats: wind components are integers in millionths of a knot        *)
(*     (Micro); sin/cos come from SinTable, math.sin of whole degrees      *)
(*     rounded to six places.  visibility in km is kept in thousandths.    *)
(*   - A weather code is a sequence of atoms: "+TSRA" is <<"+","TS","RA">>.*)
(*   - A Python dict with optional keys is a function whose DOMAIN holds   *)
(*     the keys that are present.                                          *)
(*   - A datetime is an hour: _build_datetime places every hour of a       *)
(*     forecast on the reference day, so it is the hour of that day.       *)
(*   - Report texts are given by what the parsers' searches find in them.  *)
(***************************************************************************)
EXTENDS Integers, Sequences, FiniteSets, TLC

VARIABLES
    collection,   \* WeatherCollection.elements of the invocation's collection
    pc,           \* position of the pipeline / which operation has been applied
    fStart,       \* window_start of the last filter call
    fEnd,         \* window_end of the last filter call
    fSources,     \* sources argument of the last filter call
    filtered,     \* elements of the collection returned by filter
    rHeading,     \* runway_heading argument of resolve / determine_phase
    resolved,     \* dict returned by resolve
    airfield,     \* airfield_data['OEKF'] seen by determine_phase
    temp,         \* temp argument of determine_phase
    cavok,        \* cavok argument of determine_phase
    decision,     \* dict returned by determine_phase
    report,       \* the parsed report handed to an element parser
    emitted,      \* the elements the parser appended, one batch per group
    windCall,     \* arguments and return value of calculate_wind_components
    heap,         \* the Python objects by address: lists, elements, dicts
    bird_level,   \* args.bird in upper case
    service_impacts, \* the impacts main() found in the notes, in its order
    applied       \* how many service impacts the loop of main() has applied

vars == <<collection, pc, fStart, fEnd, fSources, filtered, rHeading,
          resolved, airfield, temp, cavok, decision, report, emitted,
          windCall, heap, bird_level, service_impacts, applied>>

None == -9999
Absent == [absent |-> TRUE]
EmptyDict == [k \in {} |-> TRUE]

Micro == 1000000

\* ---------------------------------------------------------------------
\* Bounds of the model
\* ---------------------------------------------------------------------
MaxElems == 3
MaxLayers == 2
MaxGroups == 3
MaxTokens == 3

\* ---------------------------------------------------------------------
\* Helpers
\* ---------------------------------------------------------------------
Abs(x) == IF x < 0 THEN -x ELSE x

MinOf(S) == CHOOSE x \in S : \A y \in S : x <= y

Range(s) == {s[i] : i \in 1..Len(s)}

\* math.sin(math.radians(a)) for a = 0..90, in millionths
SinTable ==
  << 17452, 34899, 52336, 69756, 87156, 104528, 121869, 139173, 156434,
     173648, 190809, 207912, 224951, 241922, 258819, 275637, 292372, 309017,
     325568, 342020, 358368, 374607, 390731, 406737, 422618, 438371, 453990,
     469472, 484810, 500000, 515038, 529919, 544639, 559193, 573576, 587785,
     601815, 615661, 629320, 642788, 656059, 669131, 681998, 694658, 707107,
     719340, 731354, 743145, 754710, 766044, 777146, 788011, 798636, 809017,
     819152, 829038, 838671, 848048, 857167, 866025, 874620, 882948, 891007,
     898794, 906308, 913545, 920505, 927184, 933580, 939693, 945519, 951057,
     956305, 961262, 965926, 970296, 974370, 978148, 981627, 984808, 987688,
     990268, 992546, 994522, 996195, 997564, 998630, 999391, 999848, 1000000 >>

\* sin of an angle of 0..180 degrees, in millionths
SinMicro(a) ==
    IF a = 0 \/ a = 180 THEN 0
    ELSE IF a <= 90 THEN SinTable[a] ELSE SinTable[180 - a]

\* cos of an angle of 0..180 degrees, in millionths
CosMicro(a) ==
    IF a = 90 THEN 0
    ELSE IF a < 90 THEN SinTable[90 - a] ELSE -SinTable[a - 90]

\* round(x, 1) of a value in millionths, in tenths
Round1(m) == (m + 50000) \div 100000

\* ---------------------------------------------------------------------
\* Wind triangle (flyingphase.py)
\* ---------------------------------------------------------------------

\* Mutant of calculate_wind_components: a difference above 180 degrees is
\* reduced by 180 instead of being taken the other way round
calculate_wind_components_WrongWrap(wind_dir, wind_speed, runway_heading) ==
    LET d0 == Abs(wind_dir - runway_heading)
        angle_diff == IF d0 > 180 THEN d0 - 180 ELSE d0
    IN  << Abs(wind_speed * SinMicro(angle_diff)),
           wind_speed * CosMicro(angle_diff) >>

\* calculate_wind_components: <<crosswind, headwind>> in millionths of a
\* knot; a negative headwind is a tailwind.
calculate_wind_components(wind_dir, wind_speed, runway_heading) ==
    LET d0 == Abs(wind_dir - runway_heading)
        angle_diff == IF d0 > 180 THEN 360 - d0 ELSE d0
    IN  << Abs(wind_speed * SinMicro(angle_diff)),
           wind_speed * CosMicro(angle_diff) >>

\* ---------------------------------------------------------------------
\* Phase decision engine (flyingphase.py, determine_phase)
\* ---------------------------------------------------------------------

\* dict.get(key, default)
Get(d, key, default) == IF key \in DOMAIN d THEN d[key] ELSE default

\* Mutant of AllPass: any(...) instead of all(...)
AllPass_Any(checks) == \E i \in 1..Len(checks) : checks[i][2]

\* all(check[1] for check in checks)
AllPass(checks) == \A i \in 1..Len(checks) : checks[i][2]

\* CAVOK definition: no cloud below 5000ft AGL
cavok_guarantee_agl == 5000

\* Mutant of EffectiveWind: the gust is ignored
EffectiveWind_NoGust(wind) ==
    IF wind = Absent THEN 0 ELSE wind.speed

\* effective_wind = wind_gust if wind_gust else wind_speed
\* (a gust of None or of 0 is falsy)
EffectiveWind(wind) ==
    IF wind = Absent THEN 0
    ELSE IF wind.gust # None /\ wind.gust # 0 THEN wind.gust ELSE wind.speed

\* <<crosswind, headwind>> as determine_phase derives them from the wind
WindComponents(wind, runway_heading) ==
    IF wind = Absent THEN <<0, 0>>
    ELSE IF wind.direction # None
         THEN calculate_wind_components(wind.direction, EffectiveWind(wind),
                                        runway_heading)
         ELSE <<EffectiveWind(wind) * Micro, 0>>

\* lowest_cloud: the smallest height_ft of any layer, None without layers
LowestCloud(clouds) ==
    IF clouds = <<>> THEN None
    ELSE MinOf({clouds[i].height_ft : i \in 1..Len(clouds)})

\* ceiling: the smallest height_ft of a BKN/OVC layer, None without one
Ceiling(clouds) ==
    LET hs == {clouds[i].height_ft : i \in
                  {j \in 1..Len(clouds) : clouds[j].coverage \in {"BKN", "OVC"}}}
    IN  IF hs = {} THEN None ELSE MinOf(hs)

\* Mutant of LowestCloudForPhase: CAVOK is read as a clear sky
LowestCloudForPhase_NoGuarantee(clouds, cavokFlag) == LowestCloud(clouds)

\* lowest_cloud_for_phase: the CAVOK guarantee stands in for an absent layer
LowestCloudForPhase(clouds, cavokFlag) ==
    IF cavokFlag /\ LowestCloud(clouds) = None THEN cavok_guarantee_agl
    ELSE LowestCloud(clouds)

\* the loops computing no_sct_bkn_ovc / no_bkn_ovc: no layer below the
\* threshold and no layer of a coverage in `worse`
NoLayerWorse(clouds, threshold_agl, worse) ==
    ~ \E i \in 1..Len(clouds) :
          \/ clouds[i].height_ft < threshold_agl
          \/ clouds[i].coverage \in worse

\* lowest_cloud_for_phase is None or lowest_cloud_for_phase >= threshold
NoCloudBelow(lowest_cloud_for_phase, threshold_agl) ==
    lowest_cloud_for_phase = None \/ lowest_cloud_for_phase >= threshold_agl

\* Mutant of VisAtLeastKm: an absent visibility passes
VisAtLeastKm_AbsentPasses(vis_m, km) ==
    \/ vis_m = None
    \/ vis_m >= km * 1000

\* Mutant of VisAtLeastKm: the limit itself fails
VisAtLeastKm_Strict(vis_m, km) ==
    /\ vis_m # None
    /\ vis_m # 0
    /\ vis_m > km * 1000

\* vis_km is not None and vis_km >= km  (vis_km = vis_m / 1000 if vis_m)
VisAtLeastKm(vis_m, km) ==
    /\ vis_m # None
    /\ vis_m # 0
    /\ vis_m >= km * 1000

\* ceiling is None or ceiling >= limit
CeilingAtLeast(ceiling, limit) == ceiling = None \/ ceiling >= limit

\* Mutant of ThresholdAgl: the AMSL threshold is compared as it is
ThresholdAgl_NoConversion(amsl, elevation_ft) == amsl

\* Convert an AMSL phase threshold to AGL: threshold - elevation_ft
ThresholdAgl(amsl, elevation_ft) == amsl - elevation_ft

\* The local variables determine_phase derives before any rule is applied
PhaseLocals(res, runway_heading, airfield_data, t, cavokFlag) ==
    LET wc == WindComponents(res.wind, runway_heading)
        headwind == wc[2]
        elevation_ft == Get(airfield_data, "elevation_ft", 0)
    IN  [ vis_m |-> res.visibility_m,
          clouds |-> res.clouds,
          has_cb |-> res.has_cb,
          effective_wind |-> EffectiveWind(res.wind),
          crosswind |-> wc[1],
          tailwind |-> IF headwind < 0 THEN Abs(headwind) ELSE 0,
          headwind_component |-> IF headwind > 0 THEN headwind ELSE 0,
          unrestricted_cloud_agl |-> ThresholdAgl(8000, elevation_ft),
          restricted_cloud_agl |-> ThresholdAgl(6000, elevation_ft),
          fs_vfr_cloud_agl |-> ThresholdAgl(5000, elevation_ft),
          ceiling |-> Ceiling(res.clouds),
          lowest_cloud |-> LowestCloud(res.clouds),
          lowest_cloud_for_phase |-> LowestCloudForPhase(res.clouds, cavokFlag),
          temp |-> t,
          cavok |-> cavokFlag ]

\* result['conditions']
Conditions(res, L) ==
    [ visibility_m |-> L.vis_m,
      visibility_km |-> IF L.vis_m # None /\ L.vis_m # 0 THEN L.vis_m ELSE None,
      ceiling_ft |-> L.ceiling,
      lowest_cloud_ft |-> L.lowest_cloud,
      clouds |-> L.clouds,
      wind_dir |-> IF res.wind = Absent THEN None ELSE res.wind.direction,
      wind_speed |-> IF res.wind = Absent THEN 0 ELSE res.wind.speed,
      wind_gust |-> IF res.wind = Absent THEN None ELSE res.wind.gust,
      effective_wind |-> L.effective_wind,
      crosswind |-> Round1(L.crosswind),
      headwind |-> Round1(L.headwind_component),
      tailwind |-> Round1(L.tailwind),
      temp |-> L.temp,
      cavok |-> FALSE,
      has_cb |-> L.has_cb,
      has_ts |-> \E code \in res.weather : Len(code) >= 1 /\ code[1] = "TS",
      weather |-> res.weather ]

\* unrestricted_checks; a label with a formatted number is <<text, number>>
UnrestrictedChecks(L) ==
    << << "Vis >= 8km", VisAtLeastKm(L.vis_m, 8) >>,
       << <<"No cloud < 8000ft AMSL", L.unrestricted_cloud_agl>>,
          NoCloudBelow(L.lowest_cloud_for_phase, L.unrestricted_cloud_agl) >>,
       << "Max FEW above 8000ft AMSL",
          /\ NoLayerWorse(L.clouds, L.unrestricted_cloud_agl, {"SCT", "BKN", "OVC"})
          /\ ~ (L.cavok /\ L.clouds = <<>>
                   /\ L.unrestricted_cloud_agl > cavok_guarantee_agl) >>,
       << "Total wind <= 25kt", L.effective_wind <= 25 >>,
       << "Crosswind <= 15kt", L.crosswind <= 15 * Micro >>,
       << "Tailwind <= 5kt", L.tailwind <= 5 * Micro >> >>

\* restricted_checks
RestrictedChecks(L) ==
    << << "Vis >= 8km", VisAtLeastKm(L.vis_m, 8) >>,
       << <<"No cloud < 6000ft AMSL", L.restricted_cloud_agl>>,
          NoCloudBelow(L.lowest_cloud_for_phase, L.restricted_cloud_agl) >>,
       << "Max SCT above 6000ft AMSL",
          NoLayerWorse(L.clouds, L.restricted_cloud_agl, {"BKN", "OVC"}) >>,
       << "Total wind <= 25kt", L.effective_wind <= 25 >>,
       << "Crosswind <= 15kt", L.crosswind <= 15 * Micro >>,
       << "Tailwind <= 5kt", L.tailwind <= 5 * Micro >> >>

\* fs_vfr_checks
FsVfrChecks(L) ==
    << << "Vis >= 5km", VisAtLeastKm(L.vis_m, 5) >>,
       << <<"No cloud < 5000ft AMSL", L.fs_vfr_cloud_agl>>,
          NoCloudBelow(L.lowest_cloud_for_phase, L.fs_vfr_cloud_agl) >>,
       << "Total wind <= 25kt", L.effective_wind <= 25 >>,
       << "Crosswind <= 15kt", L.crosswind <= 15 * Micro >>,
       << "Tailwind <= 5kt", L.tailwind <= 5 * Micro >> >>

\* vfr_checks
VfrChecks(L) ==
    << << "Vis >= 5km", VisAtLeastKm(L.vis_m, 5) >>,
       << "Ceiling >= 1500ft", CeilingAtLeast(L.ceiling, 1500) >>,
       << "Total wind <= 30kt", L.effective_wind <= 30 >>,
       << "Crosswind <= 24kt", L.crosswind <= 24 * Micro >>,
       << "Tailwind <= 10kt", L.tailwind <= 10 * Micro >> >>

Min2(a, b) == IF a <= b THEN a ELSE b

\* min_vis_m after the loop over the approaches
RECURSIVE MinVisM(_, _)
MinVisM(approaches, acc) ==
    IF approaches = <<>> THEN acc
    ELSE MinVisM(Tail(approaches),
                 Min2(acc, Get(Head(approaches).minimums, "visibility_m", 800)))

\* min_ceiling_ft after the loop over the approaches
RECURSIVE MinCeilingFt(_, _)
MinCeilingFt(approaches, acc) ==
    IF approaches = <<>> THEN acc
    ELSE MinCeilingFt(Tail(approaches),
                      Min2(acc, Get(Head(approaches).minimums, "ceiling_ft", 200) + 300))

\* ifr_checks
IfrChecks(L, airfield_data) ==
    LET approaches == Get(airfield_data, "approaches", <<>>)
        min_vis_m == MinVisM(approaches, 2400)
        min_ceiling_ft == MinCeilingFt(approaches, 500)
    IN  << << <<"Vis >= m", min_vis_m>>,
              L.vis_m # None /\ L.vis_m >= min_vis_m >>,
           << <<"Ceiling >= ft", min_ceiling_ft>>,
              CeilingAtLeast(L.ceiling, min_ceiling_ft) >>,
           << "Total wind <= 30kt", L.effective_wind <= 30 >>,
           << "Crosswind <= 24kt", L.crosswind <= 24 * Micro >>,
           << "Tailwind <= 10kt", L.tailwind <= 10 * Micro >> >>

\* if effective_wind > 35  (RECALL)
WindExceedsLimits(effective_wind) == effective_wind > 35

\* if temp is not None and temp > 50  (HOLD)
TempExceedsLimit(t) == t # None /\ t > 50

\* Mutant of CrosswindExceedsLimit: the limit itself already holds
CrosswindExceedsLimit_Inclusive(crosswind) == crosswind >= 24 * Micro

\* if crosswind > 24  (HOLD)
CrosswindExceedsLimit(crosswind) == crosswind > 24 * Micro

\* Mutant of HoldFallback: the reason is not set
HoldFallback_NoReason(result, checks) ==
    [result EXCEPT !.phase = "HOLD", !.checks = checks]

\* the result when no tier is satisfied
HoldFallback(result, checks) ==
    [result EXCEPT !.phase = "HOLD", !.checks = checks,
                   !.reasons = << "Weather below IFR minimums" >>,
                   !.restrictions = [solo_cadets |-> FALSE, first_solo |-> FALSE,
                                     note |-> "Recover only - no takeoffs"]]

\* determine_phase(resolved, runway_heading, airfield_data, temp, cavok).
\* result['checks'] is an insertion-ordered dict: a sequence of
\* <<tier, checks>>.  Each early return of the code is one branch.
determine_phase(res, runway_heading, airfield_data, t, cavokFlag) ==
    LET L == PhaseLocals(res, runway_heading, airfield_data, t, cavokFlag)
        result == [ phase |-> "None",
                    conditions |-> Conditions(res, L),
                    restrictions |-> EmptyDict,
                    reasons |-> <<>>,
                    checks |-> <<>> ]
        u == UnrestrictedChecks(L)
        r == RestrictedChecks(L)
        f == FsVfrChecks(L)
        v == VfrChecks(L)
        i == IfrChecks(L, airfield_data)
        cu == << <<"UNRESTRICTED", u>> >>
        cr == Append(cu, <<"RESTRICTED", r>>)
        cf == Append(cr, <<"FS VFR", f>>)
        cv == Append(cf, <<"VFR", v>>)
        ci == Append(cv, <<"IFR", i>>)
    IN  IF WindExceedsLimits(L.effective_wind) THEN
            [result EXCEPT !.phase = "RECALL",
                           !.reasons = << <<"Wind exceeds limits", L.effective_wind>> >>]
        ELSE IF L.has_cb THEN
            [result EXCEPT !.phase = "RECALL",
                           !.reasons = << "CB (cumulonimbus) present" >>]
        ELSE IF TempExceedsLimit(t) THEN
            [result EXCEPT !.phase = "HOLD",
                           !.reasons = << <<"Temperature exceeds 50C", t>> >>]
        ELSE IF CrosswindExceedsLimit(L.crosswind) THEN
            [result EXCEPT !.phase = "HOLD",
                           !.reasons = << <<"Crosswind exceeds 24kt", Round1(L.crosswind)>> >>]
        ELSE IF AllPass(u) THEN
            [result EXCEPT !.phase = "UNRESTRICTED", !.checks = cu,
                           !.restrictions = [solo_cadets |-> TRUE, first_solo |-> TRUE]]
        ELSE IF AllPass(r) THEN
            [result EXCEPT !.phase = "RESTRICTED", !.checks = cr,
                           !.restrictions = [solo_cadets |-> TRUE,
                                             solo_note |-> "Post-IIC only",
                                             first_solo |-> TRUE]]
        ELSE IF AllPass(f) THEN
            [result EXCEPT !.phase = "FS VFR", !.checks = cf,
                           !.restrictions = [solo_cadets |-> FALSE,
                                             solo_note |-> "Not authorized",
                                             first_solo |-> TRUE]]
        ELSE IF AllPass(v) THEN
            [result EXCEPT !.phase = "VFR", !.checks = cv,
                           !.restrictions = [solo_cadets |-> FALSE, first_solo |-> FALSE]]
        ELSE IF AllPass(i) THEN
            [result EXCEPT !.phase = "IFR", !.checks = ci,
                           !.restrictions = [solo_cadets |-> FALSE, first_solo |-> FALSE]]
        ELSE HoldFallback(result, ci)

\* ---------------------------------------------------------------------
\* Weather element collection (weather_elements.py)
\* ---------------------------------------------------------------------

\* COVERAGE_RANK.get(cov, 0)
COVERAGE_RANK(cov) ==
    CASE cov = "FEW" -> 1
      [] cov = "SCT" -> 2
      [] cov = "BKN" -> 3
      [] cov = "OVC" -> 3
      [] OTHER -> 0

PHASE_SOURCES == {"METAR", "WARNING", "PIREP"}
ALTERNATE_SOURCES == {"METAR", "TAF", "WARNING", "PIREP"}

\* the sources argument when it is None (no source restriction)
NoSources == {"<None>"}

\* Mutant of overlaps_window: an element touching the window is dropped
overlaps_window_Exclusive(el, start, end) ==
    IF end # None /\ el.valid_from # None /\ el.valid_from >= end THEN FALSE
    ELSE IF start # None /\ el.valid_to # None /\ el.valid_to <= start THEN FALSE
    ELSE TRUE

\* WeatherElement.overlaps_window(start, end)
overlaps_window(el, start, end) ==
    IF end # None /\ el.valid_from # None /\ el.valid_from > end THEN FALSE
    ELSE IF start # None /\ el.valid_to # None /\ el.valid_to < start THEN FALSE
    ELSE TRUE

\* WeatherCollection.filter: the elements of the returned collection
RECURSIVE filter(_, _, _, _)
filter(elements, window_start, window_end, sources) ==
    IF elements = <<>> THEN <<>>
    ELSE LET el == Head(elements)
             rest == filter(Tail(elements), window_start, window_end, sources)
         IN  IF ~ overlaps_window(el, window_start, window_end) THEN rest
             ELSE IF sources # NoSources /\ el.source \notin sources THEN rest
             ELSE <<el>> \o rest

\* [el for el in self.elements if el.type == type]
OfType(elements, type) == SelectSeq(elements, LAMBDA el : el.type = type)

\* Mutant of ResolveVisibility: the first visibility element wins
ResolveVisibility_First(elements) ==
    LET vis_elements == OfType(elements, "visibility")
    IN  IF vis_elements = <<>> THEN None
        ELSE vis_elements[1].value.meters

\* resolve, visibility: min of the meters of the visibility elements
ResolveVisibility(elements) ==
    LET vis_elements == OfType(elements, "visibility")
    IN  IF vis_elements = <<>> THEN None
        ELSE MinOf({vis_elements[i].value.meters : i \in 1..Len(vis_elements)})

\* Mutant of EffOf: the gust is ignored
EffOf_SpeedOnly(value) == value.speed

\* eff = el.value.get('gust') or el.value.get('speed', 0)
EffOf(value) ==
    IF value.gust # None /\ value.gust # 0 THEN value.gust ELSE value.speed

\* xwind of one wind element on the runway heading, in millionths
XwindOf(value, runway_heading) ==
    IF value.direction # None
    THEN LET a0 == Abs(value.direction - runway_heading)
             angle == IF a0 > 180 THEN 360 - a0 ELSE a0
         IN  Abs(EffOf(value) * SinMicro(angle))
    ELSE EffOf(value) * Micro

\* Mutant of WorstByXwind: the first wind element is kept
WorstByXwind_KeepFirst(wind_elements, runway_heading, worst_xwind, worst_wind) ==
    Head(wind_elements).value

\* the loop over wind_elements with worst_xwind / worst_wind
RECURSIVE WorstByXwind(_, _, _, _)
WorstByXwind(wind_elements, runway_heading, worst_xwind, worst_wind) ==
    IF wind_elements = <<>> THEN worst_wind
    ELSE LET el == Head(wind_elements)
             xwind == XwindOf(el.value, runway_heading)
         IN  IF xwind > worst_xwind
             THEN WorstByXwind(Tail(wind_elements), runway_heading, xwind, el.value)
             ELSE WorstByXwind(Tail(wind_elements), runway_heading,
                               worst_xwind, worst_wind)

\* max(wind_elements, key=eff): the first element of the largest key
RECURSIVE MaxByEff(_, _)
MaxByEff(wind_elements, best) ==
    IF wind_elements = <<>> THEN best
    ELSE LET el == Head(wind_elements)
         IN  IF EffOf(el.value) > EffOf(best)
             THEN MaxByEff(Tail(wind_elements), el.value)
             ELSE MaxByEff(Tail(wind_elements), best)

\* resolve, wind
ResolveWind(elements, runway_heading) ==
    LET wind_elements == OfType(elements, "wind")
    IN  IF wind_elements = <<>> THEN Absent
        ELSE IF runway_heading # None
             THEN WorstByXwind(wind_elements, runway_heading, -1, Absent)
             ELSE MaxByEff(Tail(wind_elements), Head(wind_elements).value)

\* Mutant of ByHeight: the last element at a height replaces the kept one
RECURSIVE ByHeight_LastWins(_, _)
ByHeight_LastWins(cloud_elements, by_height) ==
    IF cloud_elements = <<>> THEN by_height
    ELSE LET el == Head(cloud_elements)
             h == el.value.height_ft
         IN  ByHeight_LastWins(Tail(cloud_elements),
                               [x \in DOMAIN by_height \cup {h} |->
                                   IF x = h THEN el.value ELSE by_height[x]])

\* the loop filling by_height: a function from height to the kept value
RECURSIVE ByHeight(_, _)
ByHeight(cloud_elements, by_height) ==
    IF cloud_elements = <<>> THEN by_height
    ELSE LET el == Head(cloud_elements)
             h == el.value.height_ft
             rank == COVERAGE_RANK(el.value.coverage)
         IN  IF h \notin DOMAIN by_height
                  \/ rank > COVERAGE_RANK(by_height[h].coverage)
             THEN ByHeight(Tail(cloud_elements),
                           [x \in DOMAIN by_height \cup {h} |->
                               IF x = h THEN el.value ELSE by_height[x]])
             ELSE ByHeight(Tail(cloud_elements), by_height)

\* sorted(by_height.values(), key=height_ft); the heights are distinct
RECURSIVE SortedByHeight(_)
SortedByHeight(by_height) ==
    IF DOMAIN by_height = {} THEN <<>>
    ELSE LET h == MinOf(DOMAIN by_height)
         IN  <<by_height[h]>> \o
             SortedByHeight([x \in DOMAIN by_height \ {h} |-> by_height[x]])

\* resolve, clouds
ResolveClouds(elements) ==
    SortedByHeight(ByHeight(OfType(elements, "cloud"), [x \in {} |-> Absent]))

\* Mutant of IsCbCode: only the exact codes CB and TS count
IsCbCode_ExactOnly(code) == code = <<"CB">> \/ code = <<"TS">>

\* code in ('CB', 'TS') or code.startswith('TS')
IsCbCode(code) ==
    \/ code = <<"CB">>
    \/ code = <<"TS">>
    \/ (Len(code) >= 1 /\ code[1] = "TS")

\* Mutant of ResolveWeather: only the code of the first weather element
ResolveWeather_FirstOnly(elements) ==
    LET weather_elements == OfType(elements, "weather")
    IN  IF weather_elements = <<>> THEN {}
        ELSE {weather_elements[1].value.code}

\* resolve, weather: the set of all codes
ResolveWeather(elements) ==
    LET weather_elements == OfType(elements, "weather")
    IN  {weather_elements[i].value.code : i \in 1..Len(weather_elements)}

\* resolve, has_cb: from the merged layers or from a weather code
ResolveHasCb(elements) ==
    \/ \E i \in 1..Len(ResolveClouds(elements)) : ResolveClouds(elements)[i].cb
    \/ \E code \in ResolveWeather(elements) : IsCbCode(code)

\* WeatherCollection.resolve(runway_heading)
resolve(elements, runway_heading) ==
    [ visibility_m |-> ResolveVisibility(elements),
      clouds |-> ResolveClouds(elements),
      wind |-> ResolveWind(elements, runway_heading),
      weather |-> ResolveWeather(elements),
      has_cb |-> ResolveHasCb(elements) ]

\* ---------------------------------------------------------------------
\* Inputs of the pipeline specification
\* ---------------------------------------------------------------------

\* WeatherElement(type, value, source, valid_from, valid_to); raw is kept
\* for display only and is not modelled
Element(type, value, source, valid_from, valid_to) ==
    [ type |-> type, value |-> value, source |-> source,
      valid_from |-> valid_from, valid_to |-> valid_to ]

Vis(m) == [meters |-> m]
Wind(d, s, g) == [direction |-> d, speed |-> s, gust |-> g]
Cloud(cov, h, cb) == [coverage |-> cov, height_ft |-> h, cb |-> cb]
Wx(code) == [code |-> code]

\* The elements a collection is built from.  Times are hours 0..3: an
\* observation taken at hour 1 (METAR, PIREP: valid_from set, valid_to
\* open), forecast groups changing at hours 2 and 3 (TAF), and a
\* standing advisory (WARNING: both ends open).
PipeElements ==
    { Element("visibility", Vis(3000), "METAR", 1, None),
      Element("visibility", Vis(8000), "TAF", None, 2),
      Element("visibility", Vis(1000), "WARNING", None, None),
      Element("cloud", Cloud("BKN", 3000, TRUE), "TAF", 2, 3),
      Element("cloud", Cloud("BKN", 3000, FALSE), "METAR", 1, None),
      Element("weather", Wx(<<"TS">>), "TAF", 3, None),
      Element("weather", Wx(<<"CB">>), "PIREP", 1, None),
      Element("wind", Wind(60, 20, None), "METAR", 1, None) }

\* window_start / window_end of a filter call
Windows ==
    { <<None, None>>, <<None, 1>>, <<3, None>>, <<0, 0>>, <<1, 1>>, <<1, 3>>,
      <<3, 3>> }

SourceScopes == { NoSources, PHASE_SOURCES, ALTERNATE_SOURCES }

\* airfield_data['OEKF'] of the pipeline runs
OEKF == [ elevation_ft |-> 2070,
          approaches |-> << [minimums |-> [visibility_m |-> 800,
                                           ceiling_ft |-> 200]] >> ]

\* <<temp, cavok>> of the observation the pipeline runs on
MainArgs == { <<22, FALSE>>, <<None, TRUE>> }

\* ---------------------------------------------------------------------
\* The pipeline of main(): build, filter, resolve, determine_phase
\* ---------------------------------------------------------------------
NoDecision == [phase |-> "None"]
NoResolved == [visibility_m |-> None]
NoReport == [kind |-> "None"]
NoCall == [wind_dir |-> None]

Init ==
    /\ collection = <<>>
    /\ pc = "build"
    /\ fStart = None
    /\ fEnd = None
    /\ fSources = NoSources
    /\ filtered = <<>>
    /\ rHeading = None
    /\ resolved = NoResolved
    /\ airfield = OEKF
    /\ temp = None
    /\ cavok = FALSE
    /\ decision = NoDecision
    /\ report = NoReport
    /\ emitted = <<>>
    /\ windCall = NoCall
    /\ heap = <<>>
    /\ bird_level = "LOW"
    /\ service_impacts = <<>>
    /\ applied = 0

\* WeatherCollection.add
Add(el) ==
    /\ pc = "build"
    /\ Len(collection) < MaxElems
    /\ collection' = Append(collection, el)
    /\ UNCHANGED <<pc, fStart, fEnd, fSources, filtered, rHeading, resolved,
                   airfield, temp, cavok, decision,
                   report, emitted, windCall,
                   heap, bird_level, service_impacts, applied>>

\* collection.filter(window_start, window_end, sources)
Filter(window_start, window_end, sources) ==
    /\ pc = "build"
    /\ filtered' = filter(collection, window_start, window_end, sources)
    /\ fStart' = window_start
    /\ fEnd' = window_end
    /\ fSources' = sources
    /\ pc' = "filtered"
    /\ UNCHANGED <<collection, rHeading, resolved, airfield, temp, cavok, decision,
                   report, emitted, windCall,
                   heap, bird_level, service_impacts, applied>>

\* filtered.resolve(runway_heading)
Resolve(runway_heading) ==
    /\ pc = "filtered"
    /\ resolved' = resolve(filtered, runway_heading)
    /\ rHeading' = runway_heading
    /\ pc' = "resolved"
    /\ UNCHANGED <<collection, fStart, fEnd, fSources, filtered, airfield,
                   temp, cavok, decision,
                   report, emitted, windCall,
                   heap, bird_level, service_impacts, applied>>

\* determine_phase(resolved, runway_heading, airfield_data, temp, cavok)
Decide(t, c) ==
    /\ pc = "resolved"
    /\ rHeading # None
    /\ temp' = t
    /\ cavok' = c
    /\ decision' = determine_phase(resolved, rHeading, airfield, t, c)
    /\ pc' = "decided"
    /\ UNCHANGED <<collection, fStart, fEnd, fSources, filtered, rHeading,
                   resolved, airfield,
                   report, emitted, windCall,
                   heap, bird_level, service_impacts, applied>>

Next ==
    \/ \E el \in PipeElements : Add(el)
    \/ \E w \in Windows, s \in SourceScopes : Filter(w[1], w[2], s)
    \/ \E h \in {None, 330} : Resolve(h)
    \/ \E a \in MainArgs : Decide(a[1], a[2])

Spec == Init /\ [][Next]_vars

\* ---------------------------------------------------------------------
\* Inputs of the phase-decision specification
\* ---------------------------------------------------------------------
Coverages == {"FEW", "SCT", "BKN", "OVC"}

PhaseHeights == {300, 1400, 1500, 5000}

PhaseVisibilities == {None, 800, 4999, 5000, 8000}

\* resolve returns the layers sorted by height, one per height; a layer
\* with the cb flag comes with has_cb, which the engine reads instead
CloudLists ==
    LET Layers == {Cloud(cov, h, FALSE) : cov \in Coverages, h \in PhaseHeights}
    IN  {s \in UNION {[1..k -> Layers] : k \in 0..MaxLayers} :
            \A i \in 1..Len(s), j \in 1..Len(s) :
                i < j => s[i].height_ft < s[j].height_ft}

\* has_cb with the weather codes it is derived from
WxCases == { [has_cb |-> FALSE, weather |-> {}],
             [has_cb |-> TRUE, weather |-> {<<"TS", "RA">>}] }

Snapshot(vis, clouds, wind, wx) ==
    [ visibility_m |-> vis, clouds |-> clouds, wind |-> wind,
      weather |-> wx.weather, has_cb |-> wx.has_cb ]

\* winds around the limits of the rules and of the tiers
RuleWinds ==
    {Absent} \cup
    {Wind(d, sp, g) : d \in {None, 330, 60, 150},
                      sp \in {6, 24, 25, 26, 36},
                      g \in {None, 0, 30, 40}}

TierWinds ==
    { Absent, Wind(330, 25, None), Wind(330, 26, None), Wind(150, 5, None),
      Wind(150, 6, None), Wind(60, 15, None), Wind(None, 16, None) }

\* airfield_data['OEKF']: without keys; below and at the elevation at
\* which the UNRESTRICTED threshold meets the CAVOK guarantee; and high
\* enough for the FS VFR threshold to lie below the VFR ceiling limit
Airfields ==
    { EmptyDict,
      [ elevation_ft |-> 3600 ],
      [ elevation_ft |-> 2900,
        approaches |-> << [minimums |-> [visibility_m |-> 800,
                                         ceiling_ft |-> 100]] >> ],
      [ elevation_ft |-> 3000,
        approaches |-> << [minimums |-> EmptyDict] >> ] }

\* snapshots that vary the cloud layers and the visibility (tier rules)
TierInputs ==
    { <<Snapshot(v, cl, w, [has_cb |-> FALSE, weather |-> {}]), 330, af>> :
        v \in PhaseVisibilities, cl \in CloudLists, w \in TierWinds,
        af \in Airfields }

\* snapshots that vary the wind, the CB flag and the runway (RECALL/HOLD)
RuleInputs ==
    { <<Snapshot(v, cl, w, wx), h, af>> :
        v \in {None, 800, 8000},
        cl \in { <<>>, <<Cloud("FEW", 5000, FALSE)>>, <<Cloud("OVC", 300, FALSE)>> },
        w \in RuleWinds, wx \in WxCases, h \in {330, 90},
        af \in {af \in Airfields : Get(af, "elevation_ft", 0) # 2900} }

\* <<temp, cavok>>
PhaseArgs == { <<t, c>> : t \in {None, 50, 51}, c \in BOOLEAN }

\* determine_phase applied to a resolved snapshot
PhaseInit ==
    /\ collection = <<>>
    /\ pc = "resolved"
    /\ fStart = None
    /\ fEnd = None
    /\ fSources = NoSources
    /\ filtered = <<>>
    /\ \E x \in TierInputs \cup RuleInputs :
          /\ resolved = x[1]
          /\ rHeading = x[2]
          /\ airfield = x[3]
    /\ temp = None
    /\ cavok = FALSE
    /\ decision = NoDecision
    /\ report = NoReport
    /\ emitted = <<>>
    /\ windCall = NoCall
    /\ heap = <<>>
    /\ bird_level = "LOW"
    /\ service_impacts = <<>>
    /\ applied = 0

PhaseNext == \E a \in PhaseArgs : Decide(a[1], a[2])

SpecPhase == PhaseInit /\ [][PhaseNext]_vars

\* ---------------------------------------------------------------------
\* Inputs of the resolve specification
\* ---------------------------------------------------------------------

\* wind elements: steady, variable, gusting, aligned with runway 33, with
\* a gust of 0 and with a gust below the sustained speed
ResolveWinds ==
    { Wind(60, 20, None), Wind(None, 15, None), Wind(360, 10, 25),
      Wind(330, 30, None), Wind(240, 18, 0), Wind(60, 30, 12) }

\* cloud elements: three coverages at one height, one of them with CB,
\* and a layer below and above
ResolveLayers ==
    { Cloud("FEW", 1000, FALSE), Cloud("OVC", 1000, FALSE),
      Cloud("BKN", 1000, TRUE), Cloud("SCT", 500, FALSE),
      Cloud("SCT", 3000, TRUE) }

\* weather codes: TS, CB, TSRA, +TSRA, RA
ResolveCodes ==
    { <<"TS">>, <<"CB">>, <<"TS", "RA">>, <<"+", "TS", "RA">>, <<"RA">> }

\* the elements of a collection resolve is called on
ResolveElements ==
    {Element("wind", w, "METAR", 1, None) : w \in ResolveWinds}
    \cup {Element("cloud", c, "PIREP", 1, None) : c \in ResolveLayers}
    \cup {Element("weather", Wx(code), "TAF", None, None) : code \in ResolveCodes}

\* runway_heading of resolve: absent, runway 33, runway 09
ResolveHeadings == {None, 330, 90}

\* WeatherCollection(elements): resolve is called on the collection as built
ResolveInit ==
    /\ \E s \in UNION {[1..k -> ResolveElements] : k \in 0..MaxElems} :
          /\ collection = s
          /\ filtered = s
    /\ pc = "filtered"
    /\ fStart = None
    /\ fEnd = None
    /\ fSources = NoSources
    /\ rHeading = None
    /\ resolved = NoResolved
    /\ airfield = OEKF
    /\ temp = None
    /\ cavok = FALSE
    /\ decision = NoDecision
    /\ report = NoReport
    /\ emitted = <<>>
    /\ windCall = NoCall
    /\ heap = <<>>
    /\ bird_level = "LOW"
    /\ service_impacts = <<>>
    /\ applied = 0

ResolveNext == \E h \in ResolveHeadings : Resolve(h)

SpecResolve == ResolveInit /\ [][ResolveNext]_vars

\* ---------------------------------------------------------------------
\* Forecast parser (flyingphase.py TAFParser, weather_elements.py
\* parse_taf_elements).  A time of the forecast text is <<day, hour>>, the
\* two fields of "ddhh"; the parser keeps the hour only.  A datetime built
\* on the reference day is the hour of that day.
\* ---------------------------------------------------------------------

\* TAFParser._parse_period: the dict of one period; body holds the tokens
\* read after the validity (wind, visibility, clouds, weather, has_cb)
parse_period(kind, start, end, body) ==
    [ valid_from_utc |-> IF kind = "HEADLESS" THEN None ELSE start[2],
      valid_to_utc |-> IF kind = "HEADLESS" THEN None
                       ELSE IF kind = "FM" THEN 24 ELSE end[2],
      wind_dir |-> body.wind_dir,
      wind_speed |-> body.wind_speed,
      wind_gust |-> body.wind_gust,
      visibility_m |-> body.visibility_m,
      clouds |-> body.clouds,
      weather |-> body.weather,
      has_cb |-> body.has_cb ]

\* the periods of one kind, in the order of the text (re.finditer)
PeriodsOf(changes, kind) ==
    LET sel == SelectSeq(changes, LAMBDA g : g.kind = kind)
    IN  [i \in 1..Len(sel) |->
            parse_period(kind, sel[i].start, sel[i].end, sel[i].body)]

\* TAFParser.parse: base_period and the BECMG, TEMPO and FM periods
TAFParser(text) ==
    [ base_period |-> parse_period(IF text.header THEN "BASE" ELSE "HEADLESS",
                                   text.start, text.end, text.body),
      becmg_periods |-> PeriodsOf(text.changes, "BECMG"),
      tempo_periods |-> PeriodsOf(text.changes, "TEMPO"),
      fm_periods |-> PeriodsOf(text.changes, "FM") ]

\* one entry of groups: kind, period, from_utc, to_utc
Group(kind, p) ==
    [ kind |-> kind, period |-> p,
      from_utc |-> p.valid_from_utc, to_utc |-> p.valid_to_utc ]

GroupsOf(periods, kind) == [i \in 1..Len(periods) |-> Group(kind, periods[i])]

\* key=lambda g: g['from_utc'] if g['from_utc'] is not None else -1
SortKey(g) == IF g.from_utc # None THEN g.from_utc ELSE -1

\* list.sort is stable: g goes behind every entry whose key is not larger
InsertByKey(sorted, g) ==
    LET n == Cardinality({i \in 1..Len(sorted) : SortKey(sorted[i]) <= SortKey(g)})
    IN  SubSeq(sorted, 1, n) \o <<g>> \o SubSeq(sorted, n + 1, Len(sorted))

RECURSIVE SortGroups(_, _)
SortGroups(groups, sorted) ==
    IF groups = <<>> THEN sorted
    ELSE SortGroups(Tail(groups), InsertByKey(sorted, Head(groups)))

\* groups of parse_taf_elements: BASE, BECMG, TEMPO, FM, sorted by start hour
TafGroups(taf) ==
    SortGroups( <<Group("BASE", taf.base_period)>>
                  \o GroupsOf(taf.becmg_periods, "BECMG")
                  \o GroupsOf(taf.tempo_periods, "TEMPO")
                  \o GroupsOf(taf.fm_periods, "FM"),
                <<>> )

\* _build_datetime(ref_time, None, hour): the hour of the reference day
build_datetime(hour) == hour % 24

\* _extract_period_elements: <<type, value>> of each element of a period
extract_period_elements(period) ==
    (IF period.visibility_m # None
       THEN << <<"visibility", Vis(period.visibility_m)>> >> ELSE <<>>)
    \o (IF period.wind_speed # None
          THEN << <<"wind", Wind(period.wind_dir, period.wind_speed,
                                 period.wind_gust)>> >>
          ELSE <<>>)
    \o [i \in 1..Len(period.clouds) |->
           <<"cloud", Cloud(period.clouds[i].coverage, period.clouds[i].height_ft,
                            period.clouds[i].type = "CB")>>]
    \o (IF period.has_cb THEN << <<"weather", Wx(<<"CB">>)>> >> ELSE <<>>)
    \o LET wx == SelectSeq(period.weather, LAMBDA code : code # <<"CB">>)
       IN  [i \in 1..Len(wx) |-> <<"weather", Wx(wx[i])>>]

\* has_match of _lookahead_end_time
HasMatch(el_type, period) ==
    \/ (el_type = "visibility" /\ period.visibility_m # None)
    \/ (el_type = "wind" /\ period.wind_speed # None)
    \/ (el_type = "cloud" /\ period.clouds # <<>>)
    \/ (el_type = "weather" /\ (period.has_cb \/ period.weather # <<>>))


\* if g['kind'] == 'TEMPO': continue
SkipsGroup(g) == g.kind = "TEMPO"

\* the loop of _lookahead_end_time from index j on
RECURSIVE LookaheadFrom(_, _, _)
LookaheadFrom(groups, j, el_type) ==
    IF j > Len(groups) THEN None
    ELSE LET g == groups[j]
         IN  IF SkipsGroup(g) THEN LookaheadFrom(groups, j + 1, el_type)
             ELSE IF HasMatch(el_type, g.period)
                  THEN IF g.kind = "BECMG" /\ g.to_utc # None
                         THEN build_datetime(g.to_utc)
                       ELSE IF g.kind = "FM" /\ g.from_utc # None
                         THEN build_datetime(g.from_utc)
                       ELSE None
                  ELSE LookaheadFrom(groups, j + 1, el_type)

\* _lookahead_end_time(groups, current_idx, el_type, ref_time)
lookahead_end_time(groups, current_idx, el_type) ==
    LookaheadFrom(groups, current_idx + 1, el_type)

\* Mutant of ValidFrom: a BASE element starts at the start of the forecast
ValidFrom_BaseStart(kind, from_h) ==
    IF from_h # None THEN build_datetime(from_h) ELSE None

\* vf of parse_taf_elements
ValidFrom(kind, from_h) ==
    IF kind = "BASE" THEN None
    ELSE IF from_h # None THEN build_datetime(from_h) ELSE None

\* vt of parse_taf_elements
ValidTo(groups, gi, el_type) ==
    IF groups[gi].kind = "TEMPO"
    THEN IF groups[gi].to_utc # None THEN build_datetime(groups[gi].to_utc)
         ELSE None
    ELSE lookahead_end_time(groups, gi, el_type)

\* the elements appended while processing groups[gi]
GroupElements(groups, gi) ==
    LET period_els == extract_period_elements(groups[gi].period)
    IN  [i \in 1..Len(period_els) |->
            Element(period_els[i][1], period_els[i][2], "TAF",
                    ValidFrom(groups[gi].kind, groups[gi].from_utc),
                    ValidTo(groups, gi, period_els[i][1]))]

\* concatenation of a sequence of sequences
RECURSIVE Flatten(_)
Flatten(ss) == IF ss = <<>> THEN <<>> ELSE Head(ss) \o Flatten(Tail(ss))

\* parse_taf_elements(taf): the elements of each group, in group order
parse_taf_elements(taf) ==
    LET groups == TafGroups(taf)
    IN  [gi \in 1..Len(groups) |-> GroupElements(groups, gi)]


\* ---------------------------------------------------------------------
\* Inputs of the forecast specification
\* ---------------------------------------------------------------------

\* the tokens of a period that states nothing
NoBody ==
    [ wind_dir |-> None, wind_speed |-> None, wind_gust |-> None,
      visibility_m |-> None, clouds |-> <<>>, weather |-> <<>>,
      has_cb |-> FALSE ]

\* a cloud group of a period: coverage, height and type (CB, TCU or none)
PeriodCloud(cov, h, type) == [coverage |-> cov, height_ft |-> h, type |-> type]

BodyVis(m) == [NoBody EXCEPT !.visibility_m = m]

BodyWind(d, s) == [NoBody EXCEPT !.wind_dir = d, !.wind_speed = s]

\* "33010KT 8000 FEW040"
BodyBase ==
    [NoBody EXCEPT !.wind_dir = 330, !.wind_speed = 10, !.visibility_m = 8000,
                   !.clouds = <<PeriodCloud("FEW", 4000, "None")>>]

\* "5000 BKN020CB"
BodyCb ==
    [NoBody EXCEPT !.visibility_m = 5000, !.has_cb = TRUE,
                   !.clouds = <<PeriodCloud("BKN", 2000, "CB")>>]

\* "0800 TS"
BodyTs == [NoBody EXCEPT !.visibility_m = 800, !.weather = << <<"TS">> >>]

\* "18005KT 7000"
BodyWindVis == [BodyWind(180, 5) EXCEPT !.visibility_m = 7000]

Change(kind, start, end, body) ==
    [kind |-> kind, start |-> start, end |-> end, body |-> body]

\* the change groups of a forecast valid 0618/0724, in the order of the
\* text: BECMG 0618/0620, BECMG 0620/0622, TEMPO 0620/0624, FM062100,
\* TEMPO 0622/0702, BECMG 0622/0624, BECMG 0702/0704, FM070300
ChangeList ==
    << Change("BECMG", <<6, 18>>, <<6, 20>>, BodyVis(3000)),
       Change("BECMG", <<6, 20>>, <<6, 22>>, BodyCb),
       Change("TEMPO", <<6, 20>>, <<6, 24>>, BodyTs),
       Change("FM", <<6, 21>>, <<6, 21>>, BodyWindVis),
       Change("TEMPO", <<6, 22>>, <<7, 2>>, BodyWind(None, 15)),
       Change("BECMG", <<6, 22>>, <<6, 24>>, BodyVis(6000)),
       Change("BECMG", <<7, 2>>, <<7, 4>>, BodyVis(10000)),
       Change("FM", <<7, 3>>, <<7, 3>>, BodyTs) >>

\* the subsequence of s at the positions of the set ps
RECURSIVE SubsequenceAt(_, _)
SubsequenceAt(s, ps) ==
    IF ps = {} THEN <<>>
    ELSE LET i == MinOf(ps)
         IN  <<s[i]>> \o SubsequenceAt(s, ps \ {i})

\* forecast texts: a base period, with or without the header the parser
\* recognises ("OEKF 061700Z 0618/0724"), and up to MaxGroups change groups
TafTexts ==
    { [ header |-> hd, start |-> <<6, 18>>, end |-> <<7, 24>>,
        body |-> BodyBase, changes |-> SubsequenceAt(ChangeList, ps) ] :
        hd \in BOOLEAN,
        ps \in {q \in SUBSET (1..Len(ChangeList)) : Cardinality(q) <= MaxGroups} }

TafReport(text) == [kind |-> "TAF", text |-> text]

\* one batch of emitted: the group the loop is at and what it appended
Batch(kind, from_h, to_h, elements) ==
    [kind |-> kind, from_utc |-> from_h, to_utc |-> to_h, elements |-> elements]

\* the elements of all batches, in order
BatchElements(batches) ==
    Flatten([i \in 1..Len(batches) |-> batches[i].elements])

\* taf = TAFParser(args.taf); collection.add_all(parse_taf_elements(taf))
ParseTaf ==
    /\ pc = "report"
    /\ report.kind = "TAF"
    /\ LET taf == TAFParser(report.text)
           groups == TafGroups(taf)
           els == parse_taf_elements(taf)
       IN  /\ emitted' = [gi \in 1..Len(groups) |->
                             Batch(groups[gi].kind, groups[gi].from_utc,
                                   groups[gi].to_utc, els[gi])]
           /\ collection' = collection \o Flatten(els)
    /\ pc' = "parsed"
    /\ UNCHANGED <<fStart, fEnd, fSources, filtered, rHeading, resolved,
                   airfield, temp, cavok, decision, report, windCall,
                   heap, bird_level, service_impacts, applied>>

TafInit ==
    /\ collection = <<>>
    /\ pc = "report"
    /\ fStart = None
    /\ fEnd = None
    /\ fSources = NoSources
    /\ filtered = <<>>
    /\ rHeading = None
    /\ resolved = NoResolved
    /\ airfield = OEKF
    /\ temp = None
    /\ cavok = FALSE
    /\ decision = NoDecision
    /\ report \in {TafReport(text) : text \in TafTexts}
    /\ emitted = <<>>
    /\ windCall = NoCall
    /\ heap = <<>>
    /\ bird_level = "LOW"
    /\ service_impacts = <<>>
    /\ applied = 0

TafNext == ParseTaf

SpecTaf == TafInit /\ [][TafNext]_vars


\* ---------------------------------------------------------------------
\* Observation, pilot report and warning parsers (weather_elements.py)
\* ---------------------------------------------------------------------

\* the codes of the weather elements of a list of elements
CodesOf(elements) ==
    {elements[i].value.code :
        i \in {j \in 1..Len(elements) : elements[j].type = "weather"}}

\* 'TS' in upper, for a token made of two-letter codes
ContainsTs(token) == \E i \in 1..Len(token) : token[i] = "TS"

\* parse_metar_elements(metar, obs_time): metar holds the fields of the
\* parsed METARParser
parse_metar_elements(metar, obs_time) ==
    LET El(type, value) == Element(type, value, "METAR", obs_time, None)
        vis == IF metar.visibility_m # None
                 THEN <<El("visibility", Vis(metar.visibility_m))>>
               ELSE IF metar.cavok THEN <<El("visibility", Vis(10000))>>
               ELSE <<>>
        wind == IF metar.wind_speed # None
                  THEN <<El("wind", Wind(metar.wind_dir, metar.wind_speed,
                                         metar.wind_gust))>>
                ELSE <<>>
        clouds == [i \in 1..Len(metar.clouds) |->
                      El("cloud", Cloud(metar.clouds[i].coverage,
                                        metar.clouds[i].height_ft,
                                        metar.clouds[i].type = "CB"))]
        wx == [i \in 1..Len(metar.weather) |-> El("weather", Wx(metar.weather[i]))]
        elements == vis \o wind \o clouds \o wx
    IN  IF /\ metar.has_ts_weather
           /\ <<"CB">> \notin CodesOf(elements)
           /\ <<"TS">> \notin CodesOf(elements)
        THEN Append(elements, El("weather", Wx(<<"TS">>)))
        ELSE elements

\* code.strip('+-') of a pilot report weather token
RECURSIVE StripSigns(_)
StripSigns(token) ==
    IF token = <<>> THEN <<>>
    ELSE IF Head(token) \in {"+", "-"} THEN StripSigns(Tail(token))
    ELSE IF token[Len(token)] \in {"+", "-"}
         THEN StripSigns(SubSeq(token, 1, Len(token) - 1))
    ELSE token

\* Mutant of HeightAgl: the height is not clamped at the ground
HeightAgl_Unclamped(height_amsl, elevation_ft) == height_amsl - elevation_ft

\* height_agl = max(0, height_amsl - elevation_ft)
HeightAgl(height_amsl, elevation_ft) ==
    IF height_amsl - elevation_ft > 0 THEN height_amsl - elevation_ft ELSE 0

\* the value of /FV in metres: statute miles, kilometres, or a bare
\* number, read as kilometres below 100
FlightVisibility(val, unit) ==
    IF unit = "SM" THEN val * 1609
    ELSE IF unit = "KM" THEN val * 1000
    ELSE IF val < 100 THEN val * 1000
    ELSE val

\* \bCB\b|\bTS\b|THUNDERSTORM anywhere in the report: a /WX token that is
\* CB or TS, signs apart, or a mention in the rest of the text
MentionsCb(pirep) ==
    \/ pirep.remark_cb
    \/ \E i \in 1..Len(pirep.wx) : StripSigns(pirep.wx[i]) \in {<<"CB">>, <<"TS">>}

\* parse_pirep_elements(pirep_text, report_time, elevation_ft): pirep holds
\* the /SK layers (coverage, hundreds of feet, type), the /WX tokens and
\* the /FV value of the text
parse_pirep_elements(pirep, report_time, elevation_ft) ==
    LET El(type, value) == Element(type, value, "PIREP", report_time, None)
        sk == [i \in 1..Len(pirep.sk) |->
                  El("cloud", Cloud(pirep.sk[i].coverage,
                                    HeightAgl(pirep.sk[i].hundreds * 100, elevation_ft),
                                    pirep.sk[i].type = "CB"))]
        codes == SelectSeq([i \in 1..Len(pirep.wx) |-> StripSigns(pirep.wx[i])],
                           LAMBDA code : code # <<>>)
        wx == [i \in 1..Len(codes) |-> El("weather", Wx(codes[i]))]
        fv == IF pirep.fv # Absent
                THEN <<El("visibility", Vis(FlightVisibility(pirep.fv.val, pirep.fv.unit)))>>
              ELSE <<>>
        elements == sk \o wx \o fv
    IN  IF /\ MentionsCb(pirep)
           /\ <<"CB">> \notin CodesOf(elements)
           /\ <<"TS">> \notin CodesOf(elements)
        THEN Append(elements, El("weather", Wx(<<"CB">>)))
        ELSE elements

\* Mutant of WarningElement: the warning is valid at the hour it is read
WarningElement_Dated(type, value) == Element(type, value, "WARNING", 1, 1)

\* WeatherElement(type=..., value=..., source='WARNING', raw=...): both
\* bounds keep their default None
WarningElement(type, value) == Element(type, value, "WARNING", None, None)

\* the metres of the visibility a warning states
WarningVisibility(vis) ==
    IF vis.km THEN vis.val * 1000
    ELSE IF vis.val < 100 THEN vis.val * 1000
    ELSE vis.val

\* parse_warning_elements(warning_text): warning holds what the searches
\* of the text find: a CB/TS/thunderstorm mention, a visibility value, a
\* dust storm or sandstorm, a wind speed, dust or sand
parse_warning_elements(warning) ==
    LET El(type, value) == WarningElement(type, value)
        vis_m == IF warning.vis # Absent THEN WarningVisibility(warning.vis)
                 ELSE IF warning.storm THEN 1000
                 ELSE None
    IN  (IF warning.cb THEN <<El("weather", Wx(<<"CB">>))>> ELSE <<>>)
        \o (IF vis_m # None THEN <<El("visibility", Vis(vis_m))>> ELSE <<>>)
        \o (IF warning.wind # None
              THEN <<El("wind", Wind(None, warning.wind, None))>> ELSE <<>>)
        \o (IF warning.dust THEN <<El("weather", Wx(<<"BL", "DU">>))>> ELSE <<>>)


\* ---------------------------------------------------------------------
\* Free text of a warning or a pilot report.  The text is its sequence of
\* whitespace-separated tokens; a token is a run of letters, a run of
\* digits and a run of letters, each possibly empty: "VIS" is
\* Tok("VIS", None, ""), "7000M" is Tok("", 7000, "M"), "BKN020" is
\* Tok("BKN", 20, ""), "Q1019" is Tok("Q", 1019, "").  A search is the
\* regular expression of the code read on these tokens.
\* ---------------------------------------------------------------------
Tok(w, n, u) == [w |-> w, n |-> n, u |-> u]

Word(w) == Tok(w, None, "")

Number(n, u) == Tok("", n, u)

\* text[i], or a token that matches nothing beyond the end of the text
At(text, i) == IF i \in 1..Len(text) THEN text[i] ELSE Tok("", None, "")

\* VIS(?:IBILITY)?\s+ : a token ending in VIS or VISIBILITY
IsVisWord(t) == t.w \in {"VIS", "VISIBILITY"} /\ t.n = None

\* (?:BELOW\s+|<\s*|OF\s+)? : the position of the number after text[i]
AfterQualifier(text, i) ==
    IF At(text, i + 1) \in {Word("BELOW"), Word("OF")} THEN i + 2 ELSE i + 1

\* M(?:ETERS?)? at the start of a run of letters
MetreUnits == {"M", "METER", "METERS"}

\* a pattern that does not match at a token
NoMatch == <<None, FALSE>>

\* vis_patterns[0] matched at token i: <<value, 'KM' in group(0)>>
VisPattern1(text, i) ==
    LET j == AfterQualifier(text, i)
        t == At(text, j)
    IN  IF /\ IsVisWord(At(text, i))
           /\ t.w = "" /\ t.n # None
           /\ \/ t.u \in MetreUnits
              \/ (t.u = "" /\ At(text, j + 1).w \in MetreUnits
                           /\ At(text, j + 1).n = None)
              \/ (t.u = "" /\ At(text, j + 1) = Word("OR")
                           /\ At(text, j + 2) = Word("LESS"))
        THEN <<t.n, FALSE>> ELSE NoMatch

\* vis_patterns[1] matched at token i
VisPattern2(text, i) ==
    LET j == AfterQualifier(text, i)
        t == At(text, j)
    IN  IF /\ IsVisWord(At(text, i))
           /\ t.w = "" /\ t.n # None
           /\ \/ t.u = "KM"
              \/ (t.u = "" /\ At(text, j + 1) = Word("KM"))
        THEN <<t.n, TRUE>> ELSE NoMatch

\* vis_patterns[2] matched at token i: the digits end at a word boundary
VisPattern3(text, i) ==
    LET t == At(text, i + 1)
    IN  IF IsVisWord(At(text, i)) /\ t.w = "" /\ t.n # None /\ t.u = ""
        THEN <<t.n, FALSE>> ELSE NoMatch

\* vis_patterns[3] matched at token i: digits, M or METER(S), then
\* OR LESS or VISIBILITY
VisPattern4(text, i) ==
    LET t == At(text, i)
        k == IF t.u = "" THEN i + 2 ELSE i + 1
    IN  IF /\ t.n # None
           /\ \/ t.u \in MetreUnits
              \/ (t.u = "" /\ At(text, i + 1) \in {Word(m) : m \in MetreUnits})
           /\ \/ At(text, k) = Word("VISIBILITY")
              \/ (At(text, k) = Word("OR") /\ At(text, k + 1) = Word("LESS"))
        THEN <<t.n, FALSE>> ELSE NoMatch

VisPattern(p, text, i) ==
    CASE p = 1 -> VisPattern1(text, i)
      [] p = 2 -> VisPattern2(text, i)
      [] p = 3 -> VisPattern3(text, i)
      [] p = 4 -> VisPattern4(text, i)

\* re.search(vp, warn_upper): the leftmost match of one pattern
SearchVisPattern(p, text) ==
    LET hits == {i \in 1..Len(text) : VisPattern(p, text, i) # NoMatch}
    IN  IF hits = {} THEN NoMatch ELSE VisPattern(p, text, MinOf(hits))

\* for vp in vis_patterns: ... break : the first pattern that matches
SearchVisibility(text) ==
    LET ps == {p \in 1..4 : SearchVisPattern(p, text) # NoMatch}
    IN  IF ps = {} THEN Absent
        ELSE LET m == SearchVisPattern(MinOf(ps), text)
             IN  [val |-> m[1], km |-> m[2]]

\* \bCB\b, \bTS\b, THUNDERSTORM: a token that is CB or TS, or the word
SaysCb(text) ==
    \E i \in 1..Len(text) :
        \/ text[i] \in {Word("CB"), Word("TS")}
        \/ text[i].w \in {"THUNDERSTORM", "THUNDERSTORMS"}

\* wind_patterns: WIND(S) or GUST(S), EXCEEDING or ABOVE or nothing, digits;
\* or digits, KT or KNOT(S), then WIND or GUST
SearchWind(text) ==
    LET after(i) == IF At(text, i + 1) \in {Word("EXCEEDING"), Word("ABOVE")}
                    THEN i + 2 ELSE i + 1
        first == {i \in 1..Len(text) :
                     /\ text[i].w \in {"WIND", "WINDS", "GUST", "GUSTS"}
                     /\ text[i].n = None
                     /\ At(text, after(i)).w = ""
                     /\ At(text, after(i)).n # None}
        knots == {"KT", "KNOT", "KNOTS"}
        second == {i \in 1..Len(text) :
                     /\ text[i].n # None
                     /\ \/ (text[i].u \in knots
                              /\ At(text, i + 1).w \in {"WIND", "WINDS", "GUST", "GUSTS"})
                        \/ (text[i].u = "" /\ At(text, i + 1) \in {Word(k) : k \in knots}
                              /\ At(text, i + 2).w \in {"WIND", "WINDS", "GUST", "GUSTS"})}
    IN  IF first # {} THEN At(text, after(MinOf(first))).n
        ELSE IF second # {} THEN text[MinOf(second)].n
        ELSE None

\* 'BLDU', 'BLSA', 'DUST', 'SAND' in warn_upper
SaysDust(text) ==
    \E i \in 1..Len(text) :
        text[i].w \in {"BLDU", "BLSA", "DUST", "SAND", "SANDSTORM"}

\* 'DUST STORM', 'SANDSTORM', 'SAND STORM', 'BLDU', 'BLSA' in warn_upper
SaysStorm(text) ==
    \E i \in 1..Len(text) :
        \/ text[i].w \in {"SANDSTORM", "BLDU", "BLSA"}
        \/ (text[i] \in {Word("DUST"), Word("SAND")} /\ At(text, i + 1).w = "STORM")

\* what the searches of parse_warning_elements find in a text
WarningFindings(text) ==
    [ cb |-> SaysCb(text), vis |-> SearchVisibility(text),
      storm |-> SaysStorm(text), wind |-> SearchWind(text),
      dust |-> SaysDust(text) ]

\* a token that opens a field of a pilot report: /SK, /WX, /FV, ...
IsField(t) == t.w \in {"/OV", "/FL", "/TP", "/SK", "/WX", "/FV", "/RM"}

\* the tokens after the first token named field, up to the next field
FieldTokens(text, field) ==
    LET starts == {i \in 1..Len(text) : text[i] = Word(field)}
    IN  IF starts = {} THEN <<>>
        ELSE LET s == MinOf(starts)
                 ends == {j \in (s + 1)..Len(text) : IsField(text[j])}
                 e == IF ends = {} THEN Len(text) + 1 ELSE MinOf(ends)
             IN  SubSeq(text, s + 1, e - 1)

\* (FEW|SCT|BKN|OVC)(\d{3})(CB|TCU)? in the /SK field; the sky groups of a
\* text are written with three digits
SkyLayers(text) ==
    LET groups == SelectSeq(FieldTokens(text, "/SK"),
                            LAMBDA t : t.w \in {"FEW", "SCT", "BKN", "OVC"}
                                       /\ t.n # None)
    IN  [i \in 1..Len(groups) |->
            [ coverage |-> groups[i].w, hundreds |-> groups[i].n,
              type |-> IF groups[i].u \in {"CB", "TCU"} THEN groups[i].u
                       ELSE "None" ]]

\* /FV\s+(\d+)\s*(SM|KM|M)? : the number after /FV and its unit
SearchFlightVisibility(text) ==
    LET hits == {i \in 1..Len(text) :
                    /\ text[i].w = "/FV" /\ text[i].n = None
                    /\ At(text, i + 1).w = "" /\ At(text, i + 1).n # None}
    IN  IF hits = {} THEN Absent
        ELSE LET t == At(text, MinOf(hits) + 1)
                 next == At(text, MinOf(hits) + 2)
                 units == {"SM", "KM", "M"}
             IN  [ val |-> t.n,
                   unit |-> IF t.u \in units THEN t.u
                            ELSE IF t.u = "" /\ next.n = None /\ next.w \in units
                                 THEN next.w
                            ELSE "" ]

\* what the searches of parse_pirep_elements find in a text whose /WX
\* field is empty
PirepFindings(text) ==
    [ sk |-> SkyLayers(text), wx |-> <<>>,
      fv |-> SearchFlightVisibility(text), remark_cb |-> SaysCb(text) ]

\* ---------------------------------------------------------------------
\* Observation parser (flyingphase.py, METARParser).  The report is the
\* list of its whitespace-separated tokens (raw.split()); a token is the
\* sequence of its characters: "BLDU" is <<"B", "L", "D", "U">>.
\* ---------------------------------------------------------------------
Digits == {"0", "1", "2", "3", "4", "5", "6", "7", "8", "9"}

DigitChars == <<"0", "1", "2", "3", "4", "5", "6", "7", "8", "9">>

Letters ==
    { "A", "B", "C", "D", "E", "F", "G", "H", "I", "J", "K", "L", "M",
      "N", "O", "P", "Q", "R", "S", "T", "U", "V", "W", "X", "Y", "Z" }

AllDigits(s) == \A i \in 1..Len(s) : s[i] \in Digits

\* int(s) of a run of digits
RECURSIVE ToInt(_)
ToInt(s) ==
    IF s = <<>> THEN 0
    ELSE ToInt(SubSeq(s, 1, Len(s) - 1)) * 10
         + (CHOOSE d \in 0..9 : DigitChars[d + 1] = s[Len(s)])

\* s[a..b], empty when the range lies outside of s
Sub(s, a, b) == IF a >= 1 /\ b <= Len(s) /\ a <= b THEN SubSeq(s, a, b) ELSE <<>>

\* wx_codes: the two characters of each code, and the code
wx_codes ==
    <<
       <<"M", "I", "MI">>, <<"B", "C", "BC">>, <<"P", "R", "PR">>, <<"D", "R", "DR">>,
       <<"B", "L", "BL">>, <<"S", "H", "SH">>, <<"T", "S", "TS">>, <<"F", "Z", "FZ">>,
       <<"D", "Z", "DZ">>, <<"R", "A", "RA">>, <<"S", "N", "SN">>, <<"S", "G", "SG">>,
       <<"I", "C", "IC">>, <<"P", "L", "PL">>, <<"G", "R", "GR">>, <<"G", "S", "GS">>,
       <<"B", "R", "BR">>, <<"F", "G", "FG">>, <<"F", "U", "FU">>, <<"V", "A", "VA">>,
       <<"D", "U", "DU">>, <<"S", "A", "SA">>, <<"H", "Z", "HZ">>, <<"P", "O", "PO">>,
       <<"S", "Q", "SQ">>, <<"F", "C", "FC">>, <<"S", "S", "SS">>, <<"D", "S", "DS">> >>

\* t[i:i+2] in wx_codes
InWxCodes(c1, c2) ==
    \E k \in 1..Len(wx_codes) : wx_codes[k][1] = c1 /\ wx_codes[k][2] = c2

\* the code of two characters
WxCode(c1, c2) ==
    wx_codes[CHOOSE k \in 1..Len(wx_codes) :
                 wx_codes[k][1] = c1 /\ wx_codes[k][2] = c2][3]

\* token.lstrip('+-')
RECURSIVE LStrip(_)
LStrip(token) ==
    IF token # <<>> /\ Head(token) \in {"+", "-"} THEN LStrip(Tail(token))
    ELSE token

\* Mutant of is_weather_token: a group of any even length is accepted
is_weather_token_AnyLength(token) ==
    LET t == LStrip(token)
    IN  /\ ~ (Len(t) < 2 \/ Len(t) % 2 # 0)
        /\ \A k \in 0..(Len(t) \div 2 - 1) : InWxCodes(t[2 * k + 1], t[2 * k + 2])

\* METARParser._is_weather_token
is_weather_token(token) ==
    LET t == LStrip(token)
    IN  /\ ~ (Len(t) < 2 \/ Len(t) > 8 \/ Len(t) % 2 # 0)
        /\ \A k \in 0..(Len(t) \div 2 - 1) : InWxCodes(t[2 * k + 1], t[2 * k + 2])

\* a weather token as a code: its signs, then its two-character codes
WeatherAtoms(token) ==
    LET t == LStrip(token)
        signs == SubSeq(token, 1, Len(token) - Len(t))
    IN  signs \o [k \in 1..(Len(t) \div 2) |-> WxCode(t[2 * k - 1], t[2 * k])]

\* 'TS' in upper
HasTsIn(token) ==
    \E i \in 1..(Len(token) - 1) : token[i] = "T" /\ token[i + 1] = "S"

\* len(part) == 4 and part.isalpha() and part.isupper()
\* and not self._is_weather_token(part) and part not in ('AUTO', 'CAVOK')
IsIcao(part) ==
    /\ Len(part) = 4
    /\ \A i \in 1..4 : part[i] \in Letters
    /\ ~ is_weather_token(part)
    /\ part # <<"A", "U", "T", "O">>

\* ^\d{6}Z$
IsTimestamp(part) ==
    Len(part) = 7 /\ AllDigits(SubSeq(part, 1, 6)) /\ part[7] = "Z"

\* part in ('AUTO', 'COR')
IsAutoCor(part) == part \in { <<"A", "U", "T", "O">>, <<"C", "O", "R">> }

\* the characters between the direction and KT of a wind token
WindMiddle(part) == Sub(part, 4, Len(part) - 2)

\* the position of G in the middle of a wind token, 0 without one
GustAt(part) ==
    LET gs == {i \in 1..Len(WindMiddle(part)) : WindMiddle(part)[i] = "G"}
    IN  IF gs = {} THEN 0 ELSE MinOf(gs)

\* ^(\d{3}|VRB)(\d{2,3})(G(\d{2,3}))?KT$
IsWind(part) ==
    LET mid == WindMiddle(part)
        g == GustAt(part)
        speed == IF g = 0 THEN mid ELSE Sub(mid, 1, g - 1)
        gust == Sub(mid, g + 1, Len(mid))
    IN  /\ Len(part) >= 7
        /\ SubSeq(part, Len(part) - 1, Len(part)) = <<"K", "T">>
        /\ (AllDigits(SubSeq(part, 1, 3)) \/ SubSeq(part, 1, 3) = <<"V", "R", "B">>)
        /\ Len(speed) \in {2, 3} /\ AllDigits(speed)
        /\ g # 0 => (Len(gust) \in {2, 3} /\ AllDigits(gust))

\* wind_dir, wind_speed, wind_gust of a wind token
WindOf(part) ==
    LET mid == WindMiddle(part)
        g == GustAt(part)
        dir == SubSeq(part, 1, 3)
        speed == IF g = 0 THEN mid ELSE Sub(mid, 1, g - 1)
        gust == Sub(mid, g + 1, Len(mid))
    IN  IF dir = <<"0", "0", "0">>
        THEN [wind_dir |-> 0, wind_speed |-> 0, wind_gust |-> None]
        ELSE [ wind_dir |-> IF dir = <<"V", "R", "B">> THEN None ELSE ToInt(dir),
               wind_speed |-> ToInt(speed),
               wind_gust |-> IF g # 0 THEN ToInt(gust) ELSE None ]

\* ^(\d{3})V(\d{3})$
IsVariableWind(part) ==
    /\ Len(part) = 7
    /\ AllDigits(SubSeq(part, 1, 3)) /\ part[4] = "V" /\ AllDigits(SubSeq(part, 5, 7))

CAVOK == <<"C", "A", "V", "O", "K">>

\* ^P?\d+SM$ : the digits of a statute-mile visibility, <<>> otherwise
StatuteMiles(part) ==
    LET body == IF part # <<>> /\ Head(part) = "P" THEN Tail(part) ELSE part
        ds == Sub(body, 1, Len(body) - 2)
    IN  IF /\ Len(body) >= 3
           /\ SubSeq(body, Len(body) - 1, Len(body)) = <<"S", "M">>
           /\ AllDigits(ds)
        THEN ds ELSE <<>>

\* CAVOK, ^P?\d+SM$ or ^\d{4}$
IsVisibility(part) ==
    \/ part = CAVOK
    \/ StatuteMiles(part) # <<>>
    \/ (Len(part) = 4 /\ AllDigits(part))

\* visibility_m of a visibility token
VisibilityOf(part) ==
    IF part = CAVOK THEN 10000
    ELSE IF StatuteMiles(part) # <<>> THEN ToInt(StatuteMiles(part)) * 1609
    ELSE IF ToInt(part) = 9999 THEN 10000
    ELSE ToInt(part)

\* part.startswith('R') and ^R(\d{2}[LCR]?)/([PM]?\d{4})
IsRvr(part) ==
    LET a == IF Len(part) >= 4 /\ part[4] \in {"L", "C", "R"} THEN 5 ELSE 4
        b == IF Len(part) > a /\ part[a + 1] \in {"P", "M"} THEN a + 2 ELSE a + 1
    IN  /\ Len(part) >= b + 3
        /\ part[1] = "R"
        /\ AllDigits(SubSeq(part, 2, 3))
        /\ part[a] = "/"
        /\ AllDigits(SubSeq(part, b, b + 3))

\* upper in ('CB', 'TCU')
IsCbOrTcu(part) == part \in { <<"C", "B">>, <<"T", "C", "U">> }

\* part in clear_sky_codes
IsClearSky(part) ==
    part \in { <<"N", "S", "C">>, <<"S", "K", "C">>, <<"N", "C", "D">>,
               <<"C", "L", "R">> }

\* the coverage a cloud token begins with, "" when it begins with none
CoverageOf(part) ==
    LET c == Sub(part, 1, 3)
    IN  CASE c = <<"F", "E", "W">> -> "FEW"
          [] c = <<"S", "C", "T">> -> "SCT"
          [] c = <<"B", "K", "N">> -> "BKN"
          [] c = <<"O", "V", "C">> -> "OVC"
          [] OTHER -> ""

\* ^(FEW|SCT|BKN|OVC)(\d{3})(CB|TCU)?$
IsCloud(part) ==
    /\ CoverageOf(part) # ""
    /\ Len(part) >= 6
    /\ AllDigits(SubSeq(part, 4, 6))
    /\ SubSeq(part, 7, Len(part)) \in { <<>>, <<"C", "B">>, <<"T", "C", "U">> }

\* the dict appended to self.clouds
CloudOf(part) ==
    PeriodCloud(CoverageOf(part), ToInt(SubSeq(part, 4, 6)) * 100,
                IF Len(part) = 6 THEN "None"
                ELSE IF Len(part) = 8 THEN "CB" ELSE "TCU")

\* M?\d{2} : the value of one side of the temperature group, None when
\* it is not of that shape
Celsius(s) ==
    IF Len(s) = 2 /\ AllDigits(s) THEN ToInt(s)
    ELSE IF Len(s) = 3 /\ s[1] = "M" /\ AllDigits(Tail(s)) THEN -ToInt(Tail(s))
    ELSE None

\* the position of the slash of a token, 0 without one
SlashAt(part) ==
    LET ss == {i \in 1..Len(part) : part[i] = "/"}
    IN  IF ss = {} THEN 0 ELSE MinOf(ss)

\* ^(M?\d{2})/(M?\d{2})$
IsTemperature(part) ==
    /\ SlashAt(part) # 0
    /\ Celsius(Sub(part, 1, SlashAt(part) - 1)) # None
    /\ Celsius(Sub(part, SlashAt(part) + 1, Len(part))) # None

\* ^Q(\d{4})$ or ^A(\d{4})$
IsQnh(part) ==
    Len(part) = 5 /\ part[1] \in {"Q", "A"} /\ AllDigits(Tail(part))

\* parts[0] in ('METAR', 'SPECI'): the prefix is removed
WithoutPrefix(parts) ==
    IF parts # <<>> /\ Head(parts) \in { <<"M", "E", "T", "A", "R">>,
                                         <<"S", "P", "E", "C", "I">> }
    THEN Tail(parts) ELSE parts

RMK == <<"R", "M", "K">>

\* obs_parts: the tokens before RMK, NOSIG, TEMPO or BECMG
ObsParts(parts) ==
    LET stops == {i \in 1..Len(parts) :
                     parts[i] \in { RMK, <<"N", "O", "S", "I", "G">>,
                                    <<"T", "E", "M", "P", "O">>,
                                    <<"B", "E", "C", "M", "G">> }}
    IN  IF stops = {} THEN parts ELSE SubSeq(parts, 1, MinOf(stops) - 1)

\* self.remarks: the tokens after the first RMK that follows the observation
Remarks(parts) ==
    LET rs == {i \in (Len(ObsParts(parts)) + 1)..Len(parts) : parts[i] = RMK}
    IN  IF rs = {} THEN <<>> ELSE SubSeq(parts, MinOf(rs) + 1, Len(parts))

\* the indices a step has consumed so far: consumed is the list of
\* <<step, index>> in the order of consumed.add(i)
Indices(consumed) == {consumed[k][2] : k \in 1..Len(consumed)}

\* the indices a loop visits: for i, part in enumerate(obs_parts):
\*                               if i in consumed: continue
Unconsumed(obs_parts, consumed) == (1..Len(obs_parts)) \ Indices(consumed)

\* the test each classification step applies to a token
HasShape(step, part) ==
    CASE step = "timestamp" -> IsTimestamp(part)
      [] step = "auto" -> IsAutoCor(part)
      [] step = "wind" -> IsWind(part)
      [] step = "variable" -> IsVariableWind(part)
      [] step = "visibility" -> IsVisibility(part)
      [] step = "rvr" -> IsRvr(part)
      [] step = "cb_tcu" -> IsCbOrTcu(part)
      [] step = "weather" -> is_weather_token(part)
      [] step = "clear" -> IsClearSky(part)
      [] step = "cloud" -> IsCloud(part)
      [] step = "temperature" -> IsTemperature(part)
      [] step = "qnh" -> IsQnh(part)

\* Mutant of TakeFirst: the token is looked for at one place only, right
\* after the tokens consumed so far
TakeFirst_ByPosition(step, obs_parts, consumed) ==
    LET at == IF consumed = <<>> THEN 1
              ELSE 1 + CHOOSE i \in Indices(consumed) :
                           \A j \in Indices(consumed) : j <= i
    IN  IF at <= Len(obs_parts) /\ HasShape(step, obs_parts[at])
        THEN Append(consumed, <<step, at>>) ELSE consumed

\* a loop that takes the first token of a shape and breaks
TakeFirst(step, obs_parts, consumed) ==
    LET hits == {i \in Unconsumed(obs_parts, consumed) : HasShape(step, obs_parts[i])}
    IN  IF hits = {} THEN consumed ELSE Append(consumed, <<step, MinOf(hits)>>)

\* a loop that takes every token of a shape
TakeAll(step, obs_parts, consumed) ==
    LET hits == {i \in Unconsumed(obs_parts, consumed) : HasShape(step, obs_parts[i])}
    IN  consumed \o [k \in 1..Cardinality(hits) |->
                        <<step, CHOOSE i \in hits :
                                   Cardinality({j \in hits : j < i}) = k - 1>>]

\* --- 1. ICAO code: only the first three tokens are looked at
TakeIcao(obs_parts) ==
    LET hits == {i \in 1..Min2(3, Len(obs_parts)) : IsIcao(obs_parts[i])}
    IN  IF hits = {} THEN <<>> ELSE << <<"icao", MinOf(hits)>> >>

\* the tokens a step consumed, in order
TakenBy(step, obs_parts, consumed) ==
    LET ev == SelectSeq(consumed, LAMBDA e : e[1] = step)
    IN  [k \in 1..Len(ev) |-> obs_parts[ev[k][2]]]

\* the compass points of _parse_cb_details, in the order of the alternation
Directions ==
    << <<"N", "E">>, <<"N", "W">>, <<"S", "E">>, <<"S", "W">>, <<"N">>, <<"E">>,
       <<"W">>, <<"S">>, <<"O", "H", "D">>, <<"D", "S", "N", "T">>, <<"V", "C">> >>

\* the first alternative that s begins with at position i, <<>> when none
DirectionAt(s, i) ==
    LET ks == {k \in 1..Len(Directions) :
                  Sub(s, i, i + Len(Directions[k]) - 1) = Directions[k]}
    IN  IF ks = {} THEN <<>> ELSE Directions[MinOf(ks)]

\* (directions(?:[-/]directions)?) at the start of a token
LocationOf(token) ==
    LET d1 == DirectionAt(token, 1)
        sep == Len(d1) + 1
        d2 == IF d1 # <<>> /\ Len(token) > sep /\ token[sep] \in {"-", "/"}
              THEN DirectionAt(token, sep + 1) ELSE <<>>
    IN  IF d2 # <<>> THEN d1 \o <<token[sep]>> \o d2 ELSE d1

\* (?:\s+(\d+)\s*NM)? after a location that ends its token: the distance
\* and the number of tokens it takes, <<None, 0>> without one
DistanceAfter(parts, i) ==
    LET t == IF i <= Len(parts) THEN parts[i] ELSE <<>>
        n == IF i + 1 <= Len(parts) THEN parts[i + 1] ELSE <<>>
        ds == SelectSeq(t, LAMBDA c : c \in Digits)
    IN  IF ds # <<>> /\ ds = Sub(t, 1, Len(ds))
        THEN IF Sub(t, Len(ds) + 1, Len(ds) + 2) = <<"N", "M">>
               THEN <<ToInt(ds), 1>>
             ELSE IF Len(t) = Len(ds) /\ Sub(n, 1, 2) = <<"N", "M">>
               THEN <<ToInt(ds), 2>>
             ELSE <<None, 0>>
        ELSE <<None, 0>>

\* one entry of cb_details for the CB token at index i of the raw text
CbDetail(parts, i) ==
    LET next == parts[i + 1]
        loc == LocationOf(next)
        whole == Len(loc) = Len(next)
        dist == IF whole THEN DistanceAfter(parts, i + 2) ELSE <<None, 0>>
        ended == /\ whole
                 /\ dist[2] = 1 =>
                       Len(parts[i + 2]) = Len(SelectSeq(parts[i + 2],
                                                         LAMBDA c : c \in Digits)) + 2
                 /\ dist[2] = 2 => Len(parts[i + 3]) = 2
        m == i + 2 + dist[2]
        mov == IF ended /\ m + 1 <= Len(parts) /\ parts[m] = <<"M", "O", "V">>
               THEN DirectionAt(parts[m + 1], 1) ELSE <<>>
    IN  [ location |-> loc,
          distance_nm |-> IF dist[1] # None THEN dist[1]
                          ELSE IF \E k \in 1..Len(loc) : Sub(loc, k, k + 3) = <<"D", "S", "N", "T">>
                            THEN 25
                          ELSE IF \E k \in 1..Len(loc) : Sub(loc, k, k + 1) = <<"V", "C">>
                            THEN 8
                          ELSE IF \E k \in 1..Len(loc) : Sub(loc, k, k + 2) = <<"O", "H", "D">>
                            THEN 0
                          ELSE None,
          movement |-> mov ]

\* _parse_cb_details: \bCB\s+ followed by a location, over the raw text
parse_cb_details(parts) ==
    LET hits == {i \in 1..(Len(parts) - 1) :
                    parts[i] = <<"C", "B">> /\ LocationOf(parts[i + 1]) # <<>>}
    IN  [k \in 1..Cardinality(hits) |->
            CbDetail(parts, CHOOSE i \in hits :
                               Cardinality({j \in hits : j < i}) = k - 1)]

\* the classification steps of parse() after the ICAO code, in order: a
\* step takes the first token of its shape and breaks, or takes every one
Steps ==
    << <<"first", "timestamp">>, <<"all", "auto">>, <<"first", "wind">>,
       <<"first", "variable">>, <<"first", "visibility">>, <<"all", "rvr">>,
       <<"all", "cb_tcu">>, <<"all", "weather">>, <<"all", "clear">>,
       <<"all", "cloud">>, <<"first", "temperature">>, <<"first", "qnh">> >>

\* consumed after the ICAO step and the first n steps that follow it
RECURSIVE ConsumedAfter(_, _)
ConsumedAfter(n, obs_parts) ==
    IF n = 0 THEN TakeIcao(obs_parts)
    ELSE IF Steps[n][1] = "first"
      THEN TakeFirst(Steps[n][2], obs_parts, ConsumedAfter(n - 1, obs_parts))
    ELSE TakeAll(Steps[n][2], obs_parts, ConsumedAfter(n - 1, obs_parts))

\* the fields parse() leaves in the parser, from the tokens of the
\* observation and the <<step, index into obs_parts>> the steps consumed
ParsedFields(raw, obs_parts, consumed) ==
    LET Taken(step) == TakenBy(step, obs_parts, consumed)
        wind == IF Taken("wind") = <<>>
                THEN [wind_dir |-> None, wind_speed |-> None, wind_gust |-> None]
                ELSE WindOf(Taken("wind")[1])
        \* step 8 visits the tokens in order: CB is appended as 'CB', TCU
        \* is dropped, a weather token is appended as it is
        wxAt == {e[2] : e \in {consumed[k] : k \in 1..Len(consumed)} \cap
                        ({"cb_tcu", "weather"} \X (1..Len(obs_parts)))}
        wxParts == SelectSeq([i \in 1..Len(obs_parts) |->
                                 IF i \in wxAt /\ obs_parts[i] # <<"T", "C", "U">>
                                 THEN obs_parts[i] ELSE <<>>],
                             LAMBDA t : t # <<>>)
        temps == Taken("temperature")
    IN  [ icao |-> IF Taken("icao") = <<>> THEN <<"O", "E", "K", "F">>
                   ELSE Taken("icao")[1],
          obs_day |-> IF Taken("timestamp") = <<>> THEN None
                      ELSE ToInt(SubSeq(Taken("timestamp")[1], 1, 2)),
          obs_hour |-> IF Taken("timestamp") = <<>> THEN None
                       ELSE ToInt(SubSeq(Taken("timestamp")[1], 3, 4)),
          obs_minute |-> IF Taken("timestamp") = <<>> THEN None
                         ELSE ToInt(SubSeq(Taken("timestamp")[1], 5, 6)),
          wind_dir |-> wind.wind_dir,
          wind_speed |-> wind.wind_speed,
          wind_gust |-> wind.wind_gust,
          wind_variable_from |-> IF Taken("variable") = <<>> THEN None
                                 ELSE ToInt(SubSeq(Taken("variable")[1], 1, 3)),
          wind_variable_to |-> IF Taken("variable") = <<>> THEN None
                               ELSE ToInt(SubSeq(Taken("variable")[1], 5, 7)),
          visibility_m |-> IF Taken("visibility") = <<>> THEN None
                           ELSE VisibilityOf(Taken("visibility")[1]),
          cavok |-> Taken("visibility") = <<CAVOK>>,
          rvr |-> Taken("rvr"),
          weather |-> [k \in 1..Len(wxParts) |->
                          IF wxParts[k] = <<"C", "B">> THEN <<"CB">>
                          ELSE WeatherAtoms(wxParts[k])],
          has_ts_weather |-> \E k \in 1..Len(wxParts) :
                                /\ wxParts[k] # <<"C", "B">>
                                /\ HasTsIn(wxParts[k]),
          clouds |-> [k \in 1..Len(Taken("cloud")) |-> CloudOf(Taken("cloud")[k])],
          temp |-> IF temps = <<>> THEN None
                   ELSE Celsius(Sub(temps[1], 1, SlashAt(temps[1]) - 1)),
          dewpoint |-> IF temps = <<>> THEN None
                       ELSE Celsius(Sub(temps[1], SlashAt(temps[1]) + 1, Len(temps[1]))),
          qnh |-> IF Taken("qnh") = <<>> THEN None
                  ELSE ToInt(Tail(Taken("qnh")[1])),
          remarks |-> Remarks(WithoutPrefix(raw)),
          cb_details |-> parse_cb_details(raw),
          consumed |-> consumed ]

\* METARParser(metar_string).parse(): the fields of the parser after
\* parse, for the raw text given as its tokens.  consumed lists
\* <<step, index into obs_parts>> in the order the steps consume tokens.
METARParser(raw) ==
    ParsedFields(raw, ObsParts(WithoutPrefix(raw)),
                 ConsumedAfter(Len(Steps), ObsParts(WithoutPrefix(raw))))

\* METARParser.has_cb
has_cb(metar) ==
    \/ \E i \in 1..Len(metar.clouds) : metar.clouds[i].type = "CB"
    \/ metar.has_ts_weather
    \/ metar.cb_details # <<>>

\* ---------------------------------------------------------------------
\* Inputs of the report specification
\* ---------------------------------------------------------------------

\* the fields of a parsed METARParser that parse_metar_elements reads;
\* has_ts_weather is set by the parser when a weather token contains TS
Metar(vis, wind, clouds, weather) ==
    [ visibility_m |-> vis, cavok |-> FALSE,
      wind_dir |-> wind[1], wind_speed |-> wind[2], wind_gust |-> wind[3],
      clouds |-> clouds, weather |-> weather,
      has_ts_weather |-> \E i \in 1..Len(weather) : ContainsTs(weather[i]) ]

\* "CAVOK": the parser sets cavok and a visibility of 10000
MetarCavok(wind) == [Metar(10000, wind, <<>>, <<>>) EXCEPT !.cavok = TRUE]

MetarWinds == { <<None, None, None>>, <<330, 10, None>>, <<None, 5, 15>> }

MetarClouds ==
    { <<>>, <<PeriodCloud("BKN", 2000, "CB")>>,
      <<PeriodCloud("FEW", 4000, "None"), PeriodCloud("SCT", 10000, "TCU")>> }

\* no weather; +TSRA; RA and TS; a standalone CB
MetarWeather ==
    { <<>>, << <<"+", "TS", "RA">> >>, << <<"RA">>, <<"TS">> >>, << <<"CB">> >> }

ObsTimes == {1, 2}

MetarReports ==
    { [kind |-> "METAR", metar |-> m, obs_time |-> ot] :
        m \in {Metar(v, w, c, wx) : v \in {None, 3000}, w \in MetarWinds,
                                    c \in MetarClouds, wx \in MetarWeather}
              \cup {MetarCavok(w) : w \in MetarWinds},
        ot \in ObsTimes }

\* a layer of /SK: coverage, height in hundreds of feet above mean sea
\* level, type
SkLayer(cov, hundreds, type) == [coverage |-> cov, hundreds |-> hundreds, type |-> type]

SkLayers ==
    { SkLayer("OVC", 10, "CB"), SkLayer("BKN", 20, "None"),
      SkLayer("FEW", 21, "None"), SkLayer("SCT", 40, "TCU"),
      SkLayer("BKN", 100, "CB") }

\* /WX tokens: none; TS; -TS with BLDU; +TSRA; a lone sign
PirepWeather ==
    { <<>>, << <<"TS">> >>, << <<"-", "TS">>, <<"BL", "DU">> >>,
      << <<"+", "TS", "RA">> >>, << <<"-">> >> }

\* /FV: absent, 3SM, 5000M, 5, 8KM
PirepVisibilities ==
    { Absent, [val |-> 3, unit |-> "SM"], [val |-> 5000, unit |-> "M"],
      [val |-> 5, unit |-> ""], [val |-> 8, unit |-> "KM"] }

\* elevation_ft of the station: sea level, OEKF, above the lowest layers
Elevations == {0, 2070, 2100}

PirepReports ==
    { [ kind |-> "PIREP",
        pirep |-> [sk |-> sk, wx |-> wx, fv |-> fv, remark_cb |-> rc],
        report_time |-> 1, elevation_ft |-> e ] :
        sk \in UNION {[1..k -> SkLayers] : k \in 0..MaxLayers},
        wx \in PirepWeather, fv \in PirepVisibilities, rc \in BOOLEAN,
        e \in Elevations }

\* the visibility a warning states: none, 800 M, 3 KM, a bare 5
WarningVisibilities ==
    { Absent, [val |-> 800, km |-> FALSE], [val |-> 3, km |-> TRUE],
      [val |-> 5, km |-> FALSE] }

\* what a warning text states; a dust storm or sandstorm is dust or sand
WarningReports ==
    { [ kind |-> "WARNING",
        warning |-> [cb |-> cb, vis |-> v, storm |-> sd[1], wind |-> w,
                     dust |-> sd[2]] ] :
        cb \in BOOLEAN, v \in WarningVisibilities, w \in {None, 40},
        sd \in { <<FALSE, FALSE>>, <<FALSE, TRUE>>, <<TRUE, TRUE>> } }

\* how a free text begins: nothing, a sky group (SKC, BKN020), VIS,
\* VISIBILITY, VISIBILITY REDUCING, VISIBILITY REDUCING TO, VIS BELOW, the
\* /FV field, the /SK and /FV fields
TextHeads ==
    { <<>>, <<Word("SKC")>>, <<Tok("BKN", 20, "")>>, <<Word("VIS")>>,
      <<Word("VISIBILITY")>>, <<Word("VISIBILITY"), Word("REDUCING")>>,
      <<Word("VISIBILITY"), Word("REDUCING"), Word("TO")>>,
      <<Word("VIS"), Word("BELOW")>>, <<Word("/FV")>>,
      <<Word("/SK"), Tok("BKN", 20, ""), Word("/FV")>> }

\* the value it states: 7000, 7000M, 7KM, 7000 M, 7 KM, 800M, 5, 3SM, or
\* the altimeter group Q1019
TextValues ==
    { <<Number(7000, "")>>, <<Number(7000, "M")>>, <<Number(7, "KM")>>,
      <<Number(7000, ""), Word("M")>>, <<Number(7, ""), Word("KM")>>,
      <<Number(800, "M")>>, <<Number(5, "")>>, <<Number(3, "SM")>>,
      <<Tok("Q", 1019, "")>> }

\* how it ends: nothing, OR LESS, VISIBILITY, CB, GUSTS 40KT
TextTails ==
    { <<>>, <<Word("OR"), Word("LESS")>>, <<Word("VISIBILITY")>>,
      <<Word("CB")>>, <<Word("GUSTS"), Number(40, "KT")>> }

FreeTexts == {h \o v \o t : h \in TextHeads, v \in TextValues, t \in TextTails}

\* a warning and a pilot report given as text (args.warning, args.pirep)
TextReports ==
    { [kind |-> "WARNING_TEXT", text |-> t] : t \in FreeTexts }
    \cup { [kind |-> "PIREP_TEXT", text |-> t, report_time |-> 1,
            elevation_ft |-> e] : t \in FreeTexts, e \in {0, 2070} }

\* the tokens an observation is written with: 33010KT, 300V360, 9999,
\* CAVOK, BLDU, +TSRA, FEW040, BKN020CB, 22/10, Q1013, RAS (an odd number
\* of letters), TSRAGRSNBR (five codes)
ObsTokens ==
    <<
       <<"3", "3", "0", "1", "0", "K", "T">>,
       <<"3", "0", "0", "V", "3", "6", "0">>,
       <<"9", "9", "9", "9">>,
       <<"C", "A", "V", "O", "K">>,
       <<"B", "L", "D", "U">>,
       <<"+", "T", "S", "R", "A">>,
       <<"F", "E", "W", "0", "4", "0">>,
       <<"B", "K", "N", "0", "2", "0", "C", "B">>,
       <<"2", "2", "/", "1", "0">>,
       <<"Q", "1", "0", "1", "3">>,
       <<"R", "A", "S">>,
       <<"T", "S", "R", "A", "G", "R", "S", "N", "B", "R">> >>

\* how an observation begins: the timestamp alone, or METAR OEKF 061700Z
ObsHeads ==
    { << <<"0", "6", "1", "7", "0", "0", "Z">> >>,
      << <<"M", "E", "T", "A", "R">>, <<"O", "E", "K", "F">>, <<"0", "6", "1", "7", "0", "0", "Z">> >> }

\* how it ends: nothing, NOSIG, or remarks RMK CB DSNT W
ObsTails ==
    { <<>>, << <<"N", "O", "S", "I", "G">> >>,
      << RMK, <<"C", "B">>, <<"D", "S", "N", "T">>, <<"W">> >> }

\* observation texts: up to MaxTokens of the tokens between head and tail
MetarTexts ==
    { h \o SubsequenceAt(ObsTokens, ps) \o t :
        h \in ObsHeads, t \in ObsTails,
        ps \in {q \in SUBSET (1..Len(ObsTokens)) : Cardinality(q) <= MaxTokens} }

\* args.metar, not yet parsed
MetarTextReports ==
    { [kind |-> "METAR_TEXT", raw |-> r, obs_time |-> 1] : r \in MetarTexts }

\* metar = METARParser(args.metar)
ReadMetar ==
    /\ pc = "report"
    /\ report.kind = "METAR_TEXT"
    /\ report' = [ kind |-> "METAR", metar |-> METARParser(report.raw),
                   obs_time |-> report.obs_time, raw |-> report.raw ]
    /\ UNCHANGED <<collection, pc, fStart, fEnd, fSources, filtered, rHeading,
                   resolved, airfield, temp, cavok, decision, emitted, windCall,
                   heap, bird_level, service_impacts, applied>>

\* collection.add_all(parse_metar_elements(metar))
ParseMetar ==
    /\ pc = "report"
    /\ report.kind = "METAR"
    /\ emitted' = << Batch("METAR", None, None,
                           parse_metar_elements(report.metar, report.obs_time)) >>
    /\ collection' = collection \o BatchElements(emitted')
    /\ pc' = "parsed"
    /\ UNCHANGED <<fStart, fEnd, fSources, filtered, rHeading, resolved,
                   airfield, temp, cavok, decision, report, windCall,
                   heap, bird_level, service_impacts, applied>>

\* collection.add_all(parse_pirep_elements(args.pirep, elevation_ft=...))
ParsePirep ==
    /\ pc = "report"
    /\ report.kind = "PIREP"
    /\ emitted' = << Batch("PIREP", None, None,
                           parse_pirep_elements(report.pirep, report.report_time,
                                                report.elevation_ft)) >>
    /\ collection' = collection \o BatchElements(emitted')
    /\ pc' = "parsed"
    /\ UNCHANGED <<fStart, fEnd, fSources, filtered, rHeading, resolved,
                   airfield, temp, cavok, decision, report, windCall,
                   heap, bird_level, service_impacts, applied>>

\* collection.add_all(parse_warning_elements(args.warning))
ParseWarning ==
    /\ pc = "report"
    /\ report.kind = "WARNING"
    /\ emitted' = << Batch("WARNING", None, None,
                           parse_warning_elements(report.warning)) >>
    /\ collection' = collection \o BatchElements(emitted')
    /\ pc' = "parsed"
    /\ UNCHANGED <<fStart, fEnd, fSources, filtered, rHeading, resolved,
                   airfield, temp, cavok, decision, report, windCall,
                   heap, bird_level, service_impacts, applied>>

\* collection.add_all(parse_warning_elements(args.warning)), the searches
\* of the text included
ParseWarningText ==
    /\ pc = "report"
    /\ report.kind = "WARNING_TEXT"
    /\ emitted' = << Batch("WARNING", None, None,
                           parse_warning_elements(WarningFindings(report.text))) >>
    /\ collection' = collection \o BatchElements(emitted')
    /\ pc' = "parsed"
    /\ UNCHANGED <<fStart, fEnd, fSources, filtered, rHeading, resolved,
                   airfield, temp, cavok, decision, report, windCall,
                   heap, bird_level, service_impacts, applied>>

\* collection.add_all(parse_pirep_elements(args.pirep, elevation_ft=...)),
\* the searches of the text included
ParsePirepText ==
    /\ pc = "report"
    /\ report.kind = "PIREP_TEXT"
    /\ emitted' = << Batch("PIREP", None, None,
                           parse_pirep_elements(PirepFindings(report.text),
                                                report.report_time,
                                                report.elevation_ft)) >>
    /\ collection' = collection \o BatchElements(emitted')
    /\ pc' = "parsed"
    /\ UNCHANGED <<fStart, fEnd, fSources, filtered, rHeading, resolved,
                   airfield, temp, cavok, decision, report, windCall,
                   heap, bird_level, service_impacts, applied>>

ReportInit ==
    /\ collection = <<>>
    /\ pc = "report"
    /\ fStart = None
    /\ fEnd = None
    /\ fSources = NoSources
    /\ filtered = <<>>
    /\ rHeading = None
    /\ resolved = NoResolved
    /\ airfield = OEKF
    /\ temp = None
    /\ cavok = FALSE
    /\ decision = NoDecision
    /\ report \in MetarReports \cup PirepReports \cup WarningReports
                    \cup TextReports \cup MetarTextReports
    /\ emitted = <<>>
    /\ windCall = NoCall
    /\ heap = <<>>
    /\ bird_level = "LOW"
    /\ service_impacts = <<>>
    /\ applied = 0

ReportNext ==
    \/ ReadMetar
    \/ ParseMetar
    \/ ParsePirep
    \/ ParseWarning
    \/ ParseWarningText
    \/ ParsePirepText

SpecReports == ReportInit /\ [][ReportNext]_vars

\* ---------------------------------------------------------------------
\* Inputs of the wind specification
\* ---------------------------------------------------------------------

\* wind directions: absent, north as 360, either side of north, and the
\* directions around runway 33
WindDirections == {None, 360, 10, 350, 60, 150, 240, 285, 330}

\* runway headings: 33, 01, 35, 09
WindHeadings == {330, 10, 350, 90}

\* winds: calm, steady 20 kt, 20 kt gusting 30
WindCases ==
    {Wind(d, sp[1], sp[2]) : d \in WindDirections,
                             sp \in { <<0, None>>, <<20, None>>, <<20, 30>> }}

\* the arguments determine_phase passes to calculate_wind_components, and
\* its return value once it has been called
Call(wind_dir, wind_speed, runway_heading, ret) ==
    [ wind_dir |-> wind_dir, wind_speed |-> wind_speed,
      runway_heading |-> runway_heading, ret |-> ret ]

\* crosswind, headwind = calculate_wind_components(wind_dir, effective_wind,
\*                                                 runway_heading)
CallComponents ==
    /\ windCall.ret = <<>>
    /\ windCall.wind_dir # None
    /\ windCall' = [windCall EXCEPT !.ret =
                       calculate_wind_components(windCall.wind_dir,
                                                 windCall.wind_speed,
                                                 windCall.runway_heading)]
    /\ UNCHANGED <<collection, pc, fStart, fEnd, fSources, filtered, rHeading,
                   resolved, airfield, temp, cavok, decision, report, emitted,
                   heap, bird_level, service_impacts, applied>>

\* a snapshot with the wind, ready for determine_phase on the runway
WindInit ==
    /\ collection = <<>>
    /\ pc = "resolved"
    /\ fStart = None
    /\ fEnd = None
    /\ fSources = NoSources
    /\ filtered = <<>>
    /\ \E w \in WindCases, h \in WindHeadings :
          /\ resolved = Snapshot(8000, <<>>, w, [has_cb |-> FALSE, weather |-> {}])
          /\ rHeading = h
          /\ windCall = Call(w.direction, EffectiveWind(w), h, <<>>)
    /\ airfield = OEKF
    /\ temp = None
    /\ cavok = FALSE
    /\ decision = NoDecision
    /\ report = NoReport
    /\ emitted = <<>>
    /\ heap = <<>>
    /\ bird_level = "LOW"
    /\ service_impacts = <<>>
    /\ applied = 0

WindNext ==
    \/ CallComponents
    \/ \E a \in MainArgs : Decide(a[1], a[2])

SpecWind == WindInit /\ [][WindNext]_vars

\* ---------------------------------------------------------------------
\* resolve on collections with ties: winds of equal crosswind and equal
\* effective speed, layers of equal rank at one height
\* ---------------------------------------------------------------------
OrderElements ==
    {Element("wind", w, "METAR", 1, None) :
        w \in {Wind(60, 20, None), Wind(240, 20, None), Wind(360, 10, 25)}}
    \cup {Element("cloud", c, "METAR", 1, None) :
        c \in {Cloud("OVC", 1000, FALSE), Cloud("BKN", 1000, FALSE),
               Cloud("BKN", 1000, TRUE), Cloud("FEW", 1000, FALSE),
               Cloud("SCT", 500, FALSE)}}
    \cup {Element("visibility", Vis(m), "PIREP", 1, 1) : m \in {3000, 8000}}
    \cup {Element("weather", Wx(code), "WARNING", None, None) :
        code \in {<<"RA">>, <<"TS", "RA">>}}

\* WeatherCollection(elements): resolve is called on the collection as built
OrderInit ==
    /\ \E s \in UNION {[1..k -> OrderElements] : k \in 0..MaxElems} :
          /\ collection = s
          /\ filtered = s
    /\ pc = "filtered"
    /\ fStart = None
    /\ fEnd = None
    /\ fSources = NoSources
    /\ rHeading = None
    /\ resolved = NoResolved
    /\ airfield = OEKF
    /\ temp = None
    /\ cavok = FALSE
    /\ decision = NoDecision
    /\ report = NoReport
    /\ emitted = <<>>
    /\ windCall = NoCall
    /\ heap = <<>>
    /\ bird_level = "LOW"
    /\ service_impacts = <<>>
    /\ applied = 0

SpecOrder == OrderInit /\ [][ResolveNext]_vars

\* ---------------------------------------------------------------------
\* The phase pipeline of main() on collections with winds above and below
\* the 35 kt limit
\* ---------------------------------------------------------------------

\* a wind above the limit along runway 33, a weaker wind across it, a wind
\* above the limit by its gust, a wind above the limit across runway 33, a
\* forecast wind above the limit, and a visibility
WorstElements ==
    { Element("wind", Wind(330, 40, None), "METAR", 1, None),
      Element("wind", Wind(60, 20, None), "METAR", 1, None),
      Element("wind", Wind(60, 20, 45), "WARNING", None, None),
      Element("wind", Wind(90, 36, None), "WARNING", None, None),
      Element("wind", Wind(None, 40, None), "TAF", 1, 3),
      Element("visibility", Vis(9999), "METAR", 1, None) }

\* _now and phase_end for a lookahead of 0 and of 2 hours
WorstWindows == { <<1, 1>>, <<1, 3>> }

\* the collection main() has built from the reports
WorstInit ==
    /\ collection \in UNION {[1..k -> WorstElements] : k \in 0..MaxElems}
    /\ pc = "build"
    /\ fStart = None
    /\ fEnd = None
    /\ fSources = NoSources
    /\ filtered = <<>>
    /\ rHeading = None
    /\ resolved = NoResolved
    /\ airfield = OEKF
    /\ temp = None
    /\ cavok = FALSE
    /\ decision = NoDecision
    /\ report = NoReport
    /\ emitted = <<>>
    /\ windCall = NoCall
    /\ heap = <<>>
    /\ bird_level = "LOW"
    /\ service_impacts = <<>>
    /\ applied = 0

\* phase_collection, phase_resolved and phase_result of main()
WorstNext ==
    \/ \E w \in WorstWindows : Filter(w[1], w[2], PHASE_SOURCES)
    \/ \E h \in {330, 90} : Resolve(h)
    \/ \E a \in MainArgs : Decide(a[1], a[2])

SpecWorst == WorstInit /\ [][WorstNext]_vars

\* ---------------------------------------------------------------------
\* Bird-strike level and airfield services (main), applied to the result
\* of determine_phase
\* ---------------------------------------------------------------------
solo_phases == {"UNRESTRICTED", "RESTRICTED", "FS VFR"}

\* phase_rank.get(phase, 0)
phase_rank(phase) ==
    CASE phase = "RECALL" -> 6
      [] phase = "HOLD" -> 5
      [] phase = "IFR" -> 4
      [] phase = "VFR" -> 3
      [] phase = "FS VFR" -> 2
      [] phase = "RESTRICTED" -> 1
      [] OTHER -> 0

\* d[key] = value on a dict in which the key may be absent
SetItem(d, key, value) ==
    [k \in DOMAIN d \cup {key} |-> IF k = key THEN value ELSE d[k]]

\* the restrictions after solo_cadets and first_solo are set to False
NoSolo(restrictions) ==
    SetItem(SetItem(restrictions, "solo_cadets", FALSE), "first_solo", FALSE)

\* Mutant of BirdCap: IFR counts as a solo phase
BirdCap_IfrToo(phase_result, level) ==
    IF level = "LOW" THEN phase_result
    ELSE IF phase_result.phase \in solo_phases \cup {"IFR"}
         THEN [phase_result EXCEPT !.phase = "VFR",
                  !.restrictions = [solo_cadets |-> FALSE, first_solo |-> FALSE,
                                    solo_note |-> "phase capped at VFR"]]
         ELSE [phase_result EXCEPT !.restrictions = NoSolo(@)]

\* phase_result after the block "if bird_level != 'LOW'"
BirdCap(phase_result, level) ==
    IF level = "LOW" THEN phase_result
    ELSE LET capped ==
                 IF phase_result.phase \in solo_phases
                 THEN [phase_result EXCEPT !.phase = "VFR",
                          !.restrictions = [solo_cadets |-> FALSE,
                                            first_solo |-> FALSE,
                                            solo_note |-> "phase capped at VFR"]]
                 ELSE [phase_result EXCEPT !.restrictions = NoSolo(@)]
         IN  IF level = "SEVERE"
             THEN [capped EXCEPT !.restrictions =
                      SetItem(@, "note", "SEVERE BIRDS: No take-offs")]
             ELSE capped

\* the services main() looks for in the notes, in the order in which it
\* appends their impacts; a phase_impact of None is "None"
ServiceTable ==
    << [service |-> "ATC", phase_impact |-> "HOLD"],
       [service |-> "SAR HELICOPTER", phase_impact |-> "HOLD"],
       [service |-> "MEDICAL", phase_impact |-> "HOLD"],
       [service |-> "FIRE/CRASH", phase_impact |-> "HOLD"],
       [service |-> "RADAR", phase_impact |-> "VFR"],
       [service |-> "MoCO", phase_impact |-> "None"],
       [service |-> "RADAR COMMS", phase_impact |-> "RECALL"],
       [service |-> "DVORTAC/GUARD", phase_impact |-> "VFR"] >>

\* service_impacts for notes in which the patterns of these services match
ServiceImpacts(down) ==
    SelectSeq(ServiceTable, LAMBDA impact : impact.service \in down)

\* one iteration of "for impact in service_impacts"
ApplyImpact(phase_result, impact) ==
    IF impact.phase_impact = "None" THEN phase_result
    ELSE IF /\ impact.phase_impact \in {"HOLD", "RECALL"}
            /\ phase_rank(impact.phase_impact) > phase_rank(phase_result.phase)
    THEN [phase_result EXCEPT
             !.phase = impact.phase_impact,
             !.reasons = Append(@, <<impact.service, "unavailable">>),
             !.restrictions = [solo_cadets |-> FALSE, first_solo |-> FALSE,
                               note |-> <<impact.service, "unavailable">>]]
    ELSE IF impact.phase_impact = "VFR"
    THEN LET capped ==
                 IF phase_result.phase \in solo_phases
                 THEN [phase_result EXCEPT !.phase = "VFR",
                          !.restrictions = [solo_cadets |-> FALSE,
                                            first_solo |-> FALSE,
                                            solo_note |-> impact.service]]
                 ELSE phase_result
         IN  [capped EXCEPT !.restrictions = NoSolo(@)]
    ELSE phase_result

\* snapshots of every phase determine_phase can return on runway 33:
\* UNRESTRICTED, RESTRICTED, FS VFR, VFR, IFR, HOLD by the fallback and
\* by the crosswind, RECALL by the wind and by CB
BirdSnapshots ==
    LET calm == [has_cb |-> FALSE, weather |-> {}]
    IN  { Snapshot(9999, <<Cloud("FEW", 8000, FALSE)>>, Wind(330, 8, None), calm),
          Snapshot(9999, <<Cloud("SCT", 5000, FALSE)>>, Wind(330, 8, None), calm),
          Snapshot(7000, <<Cloud("SCT", 4000, FALSE)>>, Wind(330, 12, None), calm),
          Snapshot(5000, <<Cloud("BKN", 2000, FALSE)>>, Wind(330, 12, None), calm),
          Snapshot(3000, <<Cloud("BKN", 1000, FALSE)>>, Wind(330, 12, None), calm),
          Snapshot(500, <<Cloud("OVC", 100, FALSE)>>, Wind(330, 12, None), calm),
          Snapshot(9999, <<>>, Wind(60, 30, None), calm),
          Snapshot(9999, <<>>, Wind(330, 40, None), calm),
          Snapshot(9999, <<>>, Wind(330, 8, None),
                   [has_cb |-> TRUE, weather |-> {<<"TS">>}]) }

\* --bird, choices low / moderate / severe, in upper case
BirdLevels == {"LOW", "MODERATE", "SEVERE"}

Services == {ServiceTable[i].service : i \in 1..Len(ServiceTable)}

\* the snapshot main() resolved, the bird level and the notes it was given
BirdInit ==
    /\ collection = <<>>
    /\ pc = "resolved"
    /\ fStart = None
    /\ fEnd = None
    /\ fSources = NoSources
    /\ filtered = <<>>
    /\ resolved \in BirdSnapshots
    /\ rHeading = 330
    /\ airfield = OEKF
    /\ temp = None
    /\ cavok = FALSE
    /\ decision = NoDecision
    /\ report = NoReport
    /\ emitted = <<>>
    /\ windCall = NoCall
    /\ heap = <<>>
    /\ bird_level \in BirdLevels
    /\ \E down \in SUBSET Services : service_impacts = ServiceImpacts(down)
    /\ applied = 0

\* the bird-strike block of main()
BirdStrike ==
    /\ pc = "decided"
    /\ decision' = BirdCap(decision, bird_level)
    /\ pc' = "capped"
    /\ UNCHANGED <<collection, fStart, fEnd, fSources, filtered, rHeading,
                   resolved, airfield, temp, cavok, report, emitted, windCall,
                   heap, bird_level, service_impacts, applied>>

\* the next iteration of the loop over service_impacts
ServiceImpact ==
    /\ pc = "capped"
    /\ applied < Len(service_impacts)
    /\ decision' = ApplyImpact(decision, service_impacts[applied + 1])
    /\ applied' = applied + 1
    /\ UNCHANGED <<collection, pc, fStart, fEnd, fSources, filtered, rHeading,
                   resolved, airfield, temp, cavok, report, emitted, windCall,
                   heap, bird_level, service_impacts>>

BirdNext ==
    \/ \E a \in MainArgs : Decide(a[1], a[2])
    \/ BirdStrike
    \/ ServiceImpact

SpecBird == BirdInit /\ [][BirdNext]_vars

\* ---------------------------------------------------------------------
\* Object identity: the collection's list, its elements and their value
\* dicts as Python objects at addresses of the heap
\* ---------------------------------------------------------------------
ListObject(items) == [obj |-> "list", items |-> items]

DictObject(d) == [obj |-> "dict", d |-> d]

\* a WeatherElement whose value field refers to the dict at address value
ElementObject(el, value) ==
    [ obj |-> "WeatherElement", type |-> el.type, value |-> value,
      source |-> el.source, valid_from |-> el.valid_from,
      valid_to |-> el.valid_to ]

\* the element at an address, read with its value dict
ElementAt(hp, ref) ==
    Element(hp[ref].type, hp[hp[ref].value].d, hp[ref].source,
            hp[ref].valid_from, hp[ref].valid_to)

\* self.elements of the collection whose list is at address self
ElementsAt(hp, self) ==
    [i \in 1..Len(hp[self].items) |-> ElementAt(hp, hp[self].items[i])]

\* Mutant of Copy: the object itself is handed on
Copy_SameObject(hp, ref) == <<hp, ref>>

\* dict(d) and list(l): a new object with the same items; the heap after
\* the call and the address of the new object
Copy(hp, ref) == <<Append(hp, hp[ref]), Len(hp) + 1>>

\* WeatherCollection(elements):
\* self.elements = list(elements) if elements else []
WeatherCollection(hp, elements) ==
    IF hp[elements].items # <<>> THEN Copy(hp, elements)
    ELSE <<Append(hp, ListObject(<<>>)), Len(hp) + 1>>

\* WeatherCollection.add: self.elements.append(element), the element and
\* its value dict being new objects
AddObject(hp, self, el) ==
    LET h1 == Append(hp, DictObject(el.value))
        h2 == Append(h1, ElementObject(el, Len(h1)))
    IN  [h2 EXCEPT ![self].items = Append(@, Len(h2))]

\* WeatherCollection.filter on objects: the kept elements are appended to
\* the new list filtered, which WeatherCollection(filtered) receives
FilterObjects(hp, self, window_start, window_end, sources) ==
    LET kept == SelectSeq(hp[self].items, LAMBDA r :
                    filter(<<ElementAt(hp, r)>>, window_start, window_end,
                           sources) # <<>>)
        h1 == Append(hp, ListObject(kept))
    IN  WeatherCollection(h1, Len(h1))

\* el.value of the first element of the collection with these items
ValueRef(hp, self, value) ==
    LET items == hp[self].items
        i == CHOOSE i \in 1..Len(items) :
                /\ hp[hp[items[i]].value].d = value
                /\ \A j \in 1..(i - 1) : hp[hp[items[j]].value].d # value
    IN  hp[items[i]].value

\* dict(el.value) for each kept layer, in the order of the sorted list
RECURSIVE CopyAll(_, _, _)
CopyAll(hp, refs, out) ==
    IF refs = <<>> THEN <<hp, out>>
    ELSE LET c == Copy(hp, Head(refs))
         IN  CopyAll(c[1], Tail(refs), Append(out, c[2]))

\* WeatherCollection.resolve on objects: the heap after the call and the
\* result dict, whose wind is the address of a dict (or None) and whose
\* clouds is the address of the list sorted() returns
ResolveObjects(hp, self, runway_heading) ==
    LET res == resolve(ElementsAt(hp, self), runway_heading)
        w == IF res.wind = Absent THEN <<hp, None>>
             ELSE Copy(hp, ValueRef(hp, self, res.wind))
        layers == [i \in 1..Len(res.clouds) |-> ValueRef(hp, self, res.clouds[i])]
        c == CopyAll(w[1], layers, <<>>)
        h3 == Append(c[1], ListObject(c[2]))
    IN  << h3, [ visibility_m |-> res.visibility_m, wind |-> w[2],
                 clouds |-> Len(h3), weather |-> res.weather,
                 has_cb |-> res.has_cb ] >>

\* ---------------------------------------------------------------------
\* Inputs and actions of the object specification
\* ---------------------------------------------------------------------

\* elements of the built collection: two winds, two layers at one height,
\* a visibility; one of them a forecast outside the phase scope
HeapElements ==
    { Element("wind", Wind(60, 20, None), "METAR", 1, None),
      Element("wind", Wind(330, 10, 25), "WARNING", None, None),
      Element("cloud", Cloud("BKN", 3000, TRUE), "TAF", 2, 3),
      Element("cloud", Cloud("FEW", 3000, FALSE), "METAR", 1, None),
      Element("visibility", Vis(5000), "PIREP", 1, 1) }

HeapWindows == { <<None, None>>, <<1, 1>> }

HeapScopes == { NoSources, PHASE_SOURCES }

\* collection = WeatherCollection(); collection.add(el) for each element
RECURSIVE Built(_, _, _)
Built(hp, self, els) ==
    IF els = <<>> THEN hp
    ELSE Built(AddObject(hp, self, Head(els)), self, Tail(els))

\* the collection built by main(), its list at address 1
HeapInit ==
    /\ \E s \in UNION {[1..k -> HeapElements] : k \in 0..MaxElems} :
          heap = Built(<<ListObject(<<>>)>>, 1, s)
    /\ collection = 1
    /\ pc = "build"
    /\ fStart = None
    /\ fEnd = None
    /\ fSources = NoSources
    /\ filtered = None
    /\ rHeading = None
    /\ resolved = NoResolved
    /\ airfield = OEKF
    /\ temp = None
    /\ cavok = FALSE
    /\ decision = NoDecision
    /\ report = NoReport
    /\ emitted = <<>>
    /\ windCall = NoCall
    /\ bird_level = "LOW"
    /\ service_impacts = <<>>
    /\ applied = 0

\* phase_collection = collection.filter(window_start, window_end, sources)
FilterCollection(window_start, window_end, sources) ==
    /\ pc = "build"
    /\ LET r == FilterObjects(heap, collection, window_start, window_end, sources)
       IN  /\ heap' = r[1]
           /\ filtered' = r[2]
    /\ fStart' = window_start
    /\ fEnd' = window_end
    /\ fSources' = sources
    /\ pc' = "filtered"
    /\ UNCHANGED <<collection, rHeading, resolved, airfield, temp, cavok,
                   decision, report, emitted, windCall,
                   bird_level, service_impacts, applied>>

\* phase_collection.add(el): the caller adds to the collection filter returned
AddToFiltered(el) ==
    /\ pc = "filtered"
    /\ heap' = AddObject(heap, filtered, el)
    /\ pc' = "added"
    /\ UNCHANGED <<collection, fStart, fEnd, fSources, filtered, rHeading,
                   resolved, airfield, temp, cavok, decision, report, emitted,
                   windCall, bird_level, service_impacts, applied>>

\* phase_resolved = phase_collection.resolve(runway_heading)
ResolveCollection(runway_heading) ==
    /\ pc \in {"filtered", "added"}
    /\ LET r == ResolveObjects(heap, filtered, runway_heading)
       IN  /\ heap' = r[1]
           /\ resolved' = r[2]
    /\ rHeading' = runway_heading
    /\ pc' = "resolved"
    /\ UNCHANGED <<collection, fStart, fEnd, fSources, filtered, airfield,
                   temp, cavok, decision, report, emitted, windCall,
                   bird_level, service_impacts, applied>>

\* phase_resolved['wind']['speed'] = speed: the caller writes to the
\* wind dict of the result
ModifyWind(speed) ==
    /\ pc = "resolved"
    /\ resolved.wind # None
    /\ heap' = [heap EXCEPT ![resolved.wind].d.speed = speed]
    /\ pc' = "modified"
    /\ UNCHANGED <<collection, fStart, fEnd, fSources, filtered, rHeading,
                   resolved, airfield, temp, cavok, decision, report, emitted,
                   windCall, bird_level, service_impacts, applied>>

\* phase_resolved['clouds'][i]['coverage'] = coverage, ['cb'] = cb: the
\* caller writes to a layer dict of the result
ModifyCloud(i, coverage, cb) ==
    /\ pc = "resolved"
    /\ i \in 1..Len(heap[resolved.clouds].items)
    /\ heap' = [heap EXCEPT ![heap[resolved.clouds].items[i]].d.coverage = coverage,
                            ![heap[resolved.clouds].items[i]].d.cb = cb]
    /\ pc' = "modified"
    /\ UNCHANGED <<collection, fStart, fEnd, fSources, filtered, rHeading,
                   resolved, airfield, temp, cavok, decision, report, emitted,
                   windCall, bird_level, service_impacts, applied>>

HeapNext ==
    \/ \E w \in HeapWindows, s \in HeapScopes : FilterCollection(w[1], w[2], s)
    \/ \E el \in HeapElements : AddToFiltered(el)
    \/ \E h \in {None, 330} : ResolveCollection(h)
    \/ \E speed \in {0, 99} : ModifyWind(speed)
    \/ \E i \in 1..MaxElems : ModifyCloud(i, "OVC", FALSE)

SpecHeap == HeapInit /\ [][HeapNext]_vars

\* ---------------------------------------------------------------------
\* Properties of the phase decision engine (checked under SpecPhase)
\* ---------------------------------------------------------------------
Decided == pc = "decided"

TierOrder == <<"UNRESTRICTED", "RESTRICTED", "FS VFR", "VFR", "IFR">>

Phases == Range(TierOrder) \cup {"HOLD", "RECALL"}

TierIndex(p) == CHOOSE i \in 1..Len(TierOrder) : TierOrder[i] = p

HasFail(checks) == \E j \in 1..Len(checks) : ~ checks[j][2]

\* effective wind as the rules state it: the gust when one is reported
\* (a gust of 0 is no gust), otherwise the sustained speed
GustOrSpeed(w) ==
    IF w = Absent THEN 0
    ELSE IF w.gust # None /\ w.gust > 0 THEN w.gust ELSE w.speed

\* crosswind on a runway as the wind triangle states it, in millionths:
\* |speed * sin(shortest angular difference)|, all of it for variable wind
CrosswindOn(w, heading) ==
    IF w = Absent THEN 0
    ELSE IF w.direction = None THEN GustOrSpeed(w) * Micro
    ELSE LET d == IF w.direction >= heading THEN w.direction - heading
                  ELSE heading - w.direction
             a == IF d > 180 THEN 360 - d ELSE d
         IN  Abs(GustOrSpeed(w) * SinMicro(a))

RecallCondition == GustOrSpeed(resolved.wind) > 35 \/ resolved.has_cb

HoldCondition ==
    \/ (temp # None /\ temp > 50)
    \/ CrosswindOn(resolved.wind, rHeading) > 24 * Micro

\* C1: whenever the effective wind (gust if present, else sustained speed)
\* is above 35 kt or has_cb is set, the phase is RECALL and no tier checks
\* are recorded, whatever the visibility, clouds, temperature, crosswind
\* and CAVOK flag are.
C1_RecallShortCircuit ==
    (Decided /\ RecallCondition) =>
        /\ decision.phase = "RECALL"
        /\ decision.checks = <<>>

\* C1 witness: a gust above 35 kt over a sustained speed below it, with a
\* temperature that would otherwise hold, is recalled.
C1_Witness ==
    /\ Decided
    /\ resolved.wind # Absent
    /\ resolved.wind.speed <= 35
    /\ resolved.wind.gust = 40
    /\ ~ resolved.has_cb
    /\ temp = 51
    /\ cavok
    /\ decision.phase = "RECALL"

\* C2: without a RECALL condition, a temperature above 50 C or a crosswind
\* above 24 kt gives HOLD before any tier is evaluated; exactly 50 C,
\* exactly 24 kt and an absent temperature do not: the tiers are evaluated.
C2_HoldShortCircuit ==
    (Decided /\ ~ RecallCondition) =>
        /\ HoldCondition => (decision.phase = "HOLD" /\ decision.checks = <<>>)
        /\ ~ HoldCondition => decision.checks # <<>>

\* C2 witness: 25 kt ninety degrees off the runway, temperature absent.
C2_Witness ==
    /\ Decided
    /\ ~ RecallCondition
    /\ temp = None
    /\ CrosswindOn(resolved.wind, rHeading) = 25 * Micro
    /\ decision.phase = "HOLD"
    /\ decision.checks = <<>>

\* C3: when a tier is returned, checks holds exactly the tiers from
\* UNRESTRICTED up to and including the returned one, in the fixed order;
\* every criterion of the returned tier passes and every earlier tier has
\* a failed criterion; without a short-circuit the first recorded tier is
\* UNRESTRICTED.
C3_FirstSatisfiedTier ==
    Decided =>
        /\ decision.phase \in Range(TierOrder) =>
              LET k == TierIndex(decision.phase)
              IN  /\ Len(decision.checks) = k
                  /\ \A i \in 1..k : decision.checks[i][1] = TierOrder[i]
                  /\ \A i \in 1..(k - 1) : HasFail(decision.checks[i][2])
                  /\ ~ HasFail(decision.checks[k][2])
                  /\ \A i \in 1..k : Len(decision.checks[i][2]) >= 5
        /\ (~ RecallCondition /\ ~ HoldCondition) =>
              /\ Len(decision.checks) >= 1
              /\ \A i \in 1..Len(decision.checks) :
                    decision.checks[i][1] = TierOrder[i]
              /\ \A i \in 1..(Len(decision.checks) - 1) :
                    HasFail(decision.checks[i][2])

\* C3 witness: VFR returned after three recorded failing tiers.
C3_Witness ==
    /\ Decided
    /\ decision.phase = "VFR"
    /\ Len(decision.checks) = 4
    /\ HasFail(decision.checks[3][2])

\* C4: the phase is always one of the seven phases, also for a snapshot
\* without visibility, wind and clouds; when no short-circuit applies and
\* no tier passes, the phase is HOLD with the one generic reason and all
\* five tiers recorded.
C4_AlwaysAPhase ==
    Decided =>
        /\ decision.phase \in Phases
        /\ (~ RecallCondition /\ ~ HoldCondition
              /\ decision.phase \notin Range(TierOrder)) =>
              /\ decision.phase = "HOLD"
              /\ decision.reasons = << "Weather below IFR minimums" >>
              /\ Len(decision.checks) = 5
              /\ \A i \in 1..5 : /\ decision.checks[i][1] = TierOrder[i]
                                 /\ HasFail(decision.checks[i][2])

\* C4 witness: nothing reported at all ends in the fallback HOLD.
C4_Witness ==
    /\ Decided
    /\ resolved.visibility_m = None
    /\ resolved.wind = Absent
    /\ resolved.clouds = <<>>
    /\ decision.phase = "HOLD"
    /\ Len(decision.checks) = 5

\* elevation_ft of the airfield configuration, 0 when absent
ElevationFt == IF "elevation_ft" \in DOMAIN airfield THEN airfield.elevation_ft ELSE 0

\* the AMSL cloud threshold of the three most permissive tiers
AmslThreshold(tier) ==
    CASE tier = "UNRESTRICTED" -> 8000
      [] tier = "RESTRICTED" -> 6000
      [] tier = "FS VFR" -> 5000

CloudTiers == {"UNRESTRICTED", "RESTRICTED", "FS VFR"}

\* the recorded (label, pass/fail) of a tier's no-cloud-below criterion
NoCloudItem(tierChecks) == tierChecks[2][2]

\* C5: with CAVOK and no cloud layers, every tier whose cloud-free
\* threshold above ground exceeds the 5000 ft guarantee has its no-cloud
\* criterion recorded as failed and is not selected; UNRESTRICTED is never
\* returned below 3000 ft elevation; a tier whose threshold is at or below
\* 5000 ft is not failed by the rule.
C5_CavokGuarantee ==
    (Decided /\ cavok /\ resolved.clouds = <<>>) =>
        /\ \A i \in 1..Len(decision.checks) :
              LET tier == decision.checks[i][1]
              IN  tier \in CloudTiers =>
                    LET thr == AmslThreshold(tier) - ElevationFt
                    IN  /\ thr > 5000 =>
                              /\ ~ NoCloudItem(decision.checks[i])[2]
                              /\ decision.phase # tier
                        /\ thr <= 5000 => NoCloudItem(decision.checks[i])[2]
        /\ ElevationFt < 3000 => decision.phase # "UNRESTRICTED"

\* C5 witness: CAVOK at 2900 ft elevation with everything else perfect is
\* RESTRICTED, UNRESTRICTED having failed on the cloud criterion.
C5_Witness ==
    /\ Decided
    /\ cavok
    /\ resolved.clouds = <<>>
    /\ resolved.visibility_m = 8000
    /\ resolved.wind = Absent
    /\ ElevationFt = 2900
    /\ decision.phase = "RESTRICTED"
    /\ ~ NoCloudItem(decision.checks[1])[2]

TailwindOn(w, heading) ==
    IF w = Absent \/ w.direction = None THEN 0
    ELSE LET d == IF w.direction >= heading THEN w.direction - heading
                  ELSE heading - w.direction
             a == IF d > 180 THEN 360 - d ELSE d
             headwind == GustOrSpeed(w) * CosMicro(a)
         IN  IF headwind < 0 THEN -headwind ELSE 0

\* the lowest BKN/OVC layer of the snapshot, None without one
LowestCeiling ==
    LET hs == {resolved.clouds[n].height_ft : n \in
                 {m \in 1..Len(resolved.clouds) :
                     resolved.clouds[m].coverage \in {"BKN", "OVC"}}}
    IN  IF hs = {} THEN None ELSE MinOf(hs)

\* the wind criteria of the VFR tier
VfrWindOk ==
    /\ GustOrSpeed(resolved.wind) <= 30
    /\ CrosswindOn(resolved.wind, rHeading) <= 24 * Micro
    /\ TailwindOn(resolved.wind, rHeading) <= 10 * Micro

VfrCeilingOk == LowestCeiling = None \/ LowestCeiling >= 1500

VfrVisOk == resolved.visibility_m # None /\ resolved.visibility_m >= 5000

NoShortCircuit == Decided /\ ~ RecallCondition /\ ~ HoldCondition

\* every UNRESTRICTED criterion other than the total wind passes
UnrestrictedOthersOk ==
    \A j \in 1..Len(decision.checks[1][2]) :
        j # 4 => decision.checks[1][2][j][2]

Filtered == pc \in {"filtered", "resolved", "decided"}

Resolved == pc \in {"resolved", "decided"}

\* the overlap and source test of one element against the last filter call
KeptByFilter(el) ==
    /\ fSources # NoSources => el.source \in fSources
    /\ ~ (fEnd # None /\ el.valid_from # None /\ el.valid_from > fEnd)
    /\ ~ (fStart # None /\ el.valid_to # None /\ el.valid_to < fStart)

\* the positions of the collection whose element is kept
KeptPositions == {i \in 1..Len(collection) : KeptByFilter(collection[i])}

\* C8: filter returns exactly the elements with a requested source whose
\* validity is neither closed-started after the window end nor
\* closed-ended before the window start, in their original order and
\* multiplicity; a bound equal to the window bound, an open end and an
\* absent window bound exclude nothing.
C8_FilterExact ==
    Filtered =>
        /\ Len(filtered) = Cardinality(KeptPositions)
        /\ \A n \in 1..Len(filtered) :
              \E i \in KeptPositions :
                  /\ Cardinality({j \in KeptPositions : j < i}) = n - 1
                  /\ filtered[n] = collection[i]

\* C8 witness: of two copies of an element starting at the window end and
\* an element starting after it, both copies are kept and the other is not.
C8_Witness ==
    /\ Filtered
    /\ fStart = 1
    /\ fEnd = 1
    /\ Len(collection) = 3
    /\ Len(filtered) = 2
    /\ filtered[1] = filtered[2]
    /\ filtered[1].valid_from = 1
    /\ \E i \in 1..3 : collection[i].valid_from # None /\ collection[i].valid_from > 1

\* an element that states cumulonimbus: a CB layer or a CB/TS code
IsCbFact(el) ==
    \/ (el.type = "cloud" /\ el.value.cb)
    \/ (el.type = "weather"
          /\ (el.value.code \in {<<"CB">>, <<"TS">>}
                \/ (Len(el.value.code) >= 1 /\ el.value.code[1] = "TS")))

\* cumulonimbus is stated by forecast elements only
CbOnlyFromTaf ==
    /\ \E i \in 1..Len(collection) : IsCbFact(collection[i])
    /\ \A i \in 1..Len(collection) :
          IsCbFact(collection[i]) => collection[i].source = "TAF"

\* some forecast cumulonimbus element is valid within the filter window
TafCbInWindow ==
    \E i \in 1..Len(collection) :
        /\ IsCbFact(collection[i])
        /\ collection[i].source = "TAF"
        /\ ~ (fEnd # None /\ collection[i].valid_from # None
                /\ collection[i].valid_from > fEnd)
        /\ ~ (fStart # None /\ collection[i].valid_to # None
                /\ collection[i].valid_to < fStart)

\* C9: cumulonimbus stated only by TAF elements never reaches the snapshot
\* of a phase-scope filter (has_cb false, no RECALL from it), for every
\* window; the alternate scope over a window the element overlaps
\* resolves to has_cb = true.
C9_ForecastCbScopes ==
    (Resolved /\ CbOnlyFromTaf) =>
        /\ fSources = PHASE_SOURCES =>
              /\ ~ resolved.has_cb
              /\ (Decided /\ GustOrSpeed(resolved.wind) <= 35)
                    => decision.phase # "RECALL"
        /\ (fSources = ALTERNATE_SOURCES /\ TafCbInWindow) => resolved.has_cb

\* C10: visibility_m of the snapshot is the minimum of the meters of all
\* visibility elements of the resolved collection, whatever their source,
\* and is absent exactly when there is none.
C10_LowestVisibility ==
    Resolved =>
        LET ms == {filtered[i].value.meters :
                      i \in {j \in 1..Len(filtered) : filtered[j].type = "visibility"}}
        IN  /\ ms = {} <=> resolved.visibility_m = None
            /\ ms # {} => /\ resolved.visibility_m \in ms
                          /\ \A m \in ms : resolved.visibility_m <= m

\* C10 witness: the lowest visibility is not the first one and comes from
\* another source than the observation.
C10_Witness ==
    /\ Resolved
    /\ Len(filtered) >= 2
    /\ filtered[1].type = "visibility"
    /\ filtered[1].source = "METAR"
    /\ resolved.visibility_m # None
    /\ resolved.visibility_m < filtered[1].value.meters

\* ---------------------------------------------------------------------
\* Properties of resolve (checked under SpecResolve)
\* ---------------------------------------------------------------------

\* the values of the wind elements of the resolved collection
WindValues ==
    {filtered[i].value :
        i \in {j \in 1..Len(filtered) : filtered[j].type = "wind"}}

\* C11: with a runway heading, the wind of the snapshot is the value of a
\* wind element whose crosswind on that heading (from the gust when there
\* is one, else from the sustained speed; the whole effective speed for a
\* wind without direction) is the largest of all wind elements; without a
\* heading it is one of the largest effective speed; without wind
\* elements the wind is absent.
C11_WorstWind ==
    Resolved =>
        /\ WindValues = {} <=> resolved.wind = Absent
        /\ WindValues # {} =>
              /\ resolved.wind \in WindValues
              /\ rHeading # None =>
                    \A w \in WindValues :
                        CrosswindOn(resolved.wind, rHeading) >= CrosswindOn(w, rHeading)
              /\ rHeading = None =>
                    \A w \in WindValues :
                        GustOrSpeed(resolved.wind) >= GustOrSpeed(w)

\* C11 witness: on runway 09 a gusting wind of lower sustained speed is
\* returned ahead of a steady wind and a variable wind that come first.
C11_Witness ==
    /\ Resolved
    /\ rHeading = 90
    /\ Len(filtered) = 3
    /\ filtered[1].value = Wind(60, 20, None)
    /\ filtered[2].value = Wind(None, 15, None)
    /\ filtered[3].value = Wind(360, 10, 25)
    /\ resolved.wind = Wind(360, 10, 25)

\* the values of the cloud elements of the resolved collection
CloudValues ==
    {filtered[i].value :
        i \in {j \in 1..Len(filtered) : filtered[j].type = "cloud"}}

\* the coverage ranking as stated: FEW < SCT < BKN = OVC
StatedRank(cov) ==
    IF cov = "FEW" THEN 1 ELSE IF cov = "SCT" THEN 2 ELSE 3

\* C12: the cloud list of the snapshot has exactly one layer for every
\* distinct height among the cloud elements, is sorted by ascending
\* height, and the layer of a height carries a coverage of the highest
\* rank (FEW < SCT < BKN = OVC) found among the elements at that height.
C12_CloudMerge ==
    Resolved =>
        LET cl == resolved.clouds
            heights == {c.height_ft : c \in CloudValues}
        IN  /\ Len(cl) = Cardinality(heights)
            /\ {cl[i].height_ft : i \in 1..Len(cl)} = heights
            /\ \A i \in 1..Len(cl), j \in 1..Len(cl) :
                  i < j => cl[i].height_ft < cl[j].height_ft
            /\ \A i \in 1..Len(cl) :
                  LET same == {c \in CloudValues : c.height_ft = cl[i].height_ft}
                  IN  /\ cl[i].coverage \in {c.coverage : c \in same}
                      /\ \A c \in same :
                            StatedRank(cl[i].coverage) >= StatedRank(c.coverage)

\* C12 witness: FEW then OVC at 1000 ft and a later SCT layer at 500 ft
\* resolve to SCT 500 followed by OVC 1000.
C12_Witness ==
    /\ Resolved
    /\ Len(filtered) = 3
    /\ filtered[1].value = Cloud("FEW", 1000, FALSE)
    /\ filtered[2].value = Cloud("OVC", 1000, FALSE)
    /\ filtered[3].value = Cloud("SCT", 500, FALSE)
    /\ resolved.clouds = << Cloud("SCT", 500, FALSE), Cloud("OVC", 1000, FALSE) >>

\* the codes of the weather elements of the resolved collection
WeatherCodes ==
    {filtered[i].value.code :
        i \in {j \in 1..Len(filtered) : filtered[j].type = "weather"}}

\* a code that is CB or TS or begins with TS
StatesThunderstorm(code) ==
    code \in {<<"CB">>, <<"TS">>} \/ (code # <<>> /\ Head(code) = "TS")

\* C13: the weather of the snapshot is exactly the set of the codes of all
\* weather elements, and has_cb holds if and only if some code is CB or TS
\* or begins with TS, or some layer of the merged cloud list carries the
\* CB flag.
C13_WeatherAndCb ==
    Resolved =>
        /\ resolved.weather = WeatherCodes
        /\ resolved.has_cb <=>
              \/ \E code \in WeatherCodes : StatesThunderstorm(code)
              \/ \E i \in 1..Len(resolved.clouds) : resolved.clouds[i].cb

\* C13 witness: rain and a thunderstorm with rain, over a layer without
\* CB: both codes are in the weather set and has_cb comes from the TSRA
\* code alone.
C13_Witness ==
    /\ Resolved
    /\ Len(filtered) = 3
    /\ filtered[1].value = Wx(<<"RA">>)
    /\ filtered[2].value = Cloud("SCT", 500, FALSE)
    /\ filtered[3].value = Wx(<<"TS", "RA">>)
    /\ resolved.weather = {<<"RA">>, <<"TS", "RA">>}
    /\ resolved.has_cb

\* ---------------------------------------------------------------------
\* Properties of the forecast parser (checked under SpecTaf)
\* ---------------------------------------------------------------------
Parsed == pc = "parsed"

\* the groups of the forecast text in the order of the text: the base
\* period, then the change groups
TextGroups ==
    <<Change("BASE", report.text.start, report.text.end, report.text.body)>>
    \o report.text.changes

\* hours since the start of the month of a time <<day, hour>> of the text
AbsHour(time) == time[1] * 24 + time[2]

\* an hour of the text read as an hour of the reference day
HourOfDay(h) == h % 24

\* a period states a value of the kind
States(body, type) ==
    \/ (type = "visibility" /\ body.visibility_m # None)
    \/ (type = "wind" /\ body.wind_speed # None)
    \/ (type = "cloud" /\ body.clouds # <<>>)
    \/ (type = "weather" /\ (body.has_cb \/ body.weather # <<>>))

\* the batch emitted for a group of the text (a kind and a start hour
\* name one group in every forecast considered)
BatchOf(g) ==
    CHOOSE b \in Range(emitted) :
        /\ b.kind = g.kind
        /\ g.kind # "BASE" => b.from_utc = g.start[2]

\* the BECMG/FM groups that start after g and restate the kind
Terminators(g, type) ==
    {c \in Range(report.text.changes) :
        /\ c.kind \in {"BECMG", "FM"}
        /\ States(c.body, type)
        /\ (g.kind = "BASE" \/ AbsHour(c.start) > AbsHour(g.start))}

\* the end of validity the lookahead rule gives an element of g
ExpectedEnd(g, type) ==
    IF Terminators(g, type) = {} THEN None
    ELSE LET c == CHOOSE x \in Terminators(g, type) :
                      \A y \in Terminators(g, type) :
                          AbsHour(x.start) <= AbsHour(y.start)
         IN  HourOfDay(IF c.kind = "BECMG" THEN c.end[2] ELSE c.start[2])

\* C14: every element emitted from a BASE, BECMG or FM group ends at the
\* first later group, TEMPO groups skipped, that states a value of the
\* same kind: at the end hour of a BECMG group, at the start hour of an FM
\* group; its valid_to is absent when no later BECMG/FM group does.
C14_LookaheadEnd ==
    Parsed =>
        \A n \in 1..Len(TextGroups) :
            TextGroups[n].kind # "TEMPO" =>
                \A el \in Range(BatchOf(TextGroups[n]).elements) :
                    el.valid_to = ExpectedEnd(TextGroups[n], el.type)

\* no change group starts after the day on which the forecast starts
WithinStartDay ==
    \A c \in Range(report.text.changes) : c.start[1] = report.text.start[1]

\* C14 on forecasts whose groups all start on the first day
C14_WithinStartDay == WithinStartDay => C14_LookaheadEnd

\* the group of the text a batch was emitted for
GroupOfBatch(b) ==
    CHOOSE g \in Range(TextGroups) :
        /\ g.kind = b.kind
        /\ g.kind # "BASE" => g.start[2] = b.from_utc

\* C15: the groups are processed in chronological order of their start,
\* also when the forecast crosses midnight, and an element that ends is
\* ended by a BECMG/FM group restating its kind that starts after the
\* element's own group.
C15_ChronologicalLookahead ==
    Parsed =>
        /\ \A i \in 1..Len(emitted), j \in 1..Len(emitted) :
              i < j => AbsHour(GroupOfBatch(emitted[i]).start)
                          <= AbsHour(GroupOfBatch(emitted[j]).start)
        /\ \A n \in 1..Len(TextGroups) :
              TextGroups[n].kind # "TEMPO" =>
                  \A el \in Range(BatchOf(TextGroups[n]).elements) :
                      el.valid_to # None =>
                          \E c \in Terminators(TextGroups[n], el.type) :
                              el.valid_to =
                                  HourOfDay(IF c.kind = "BECMG" THEN c.end[2]
                                            ELSE c.start[2])

\* C16: no emitted element that has both bounds ends before it starts.
C16_ValidityOrdered ==
    Parsed =>
        \A i \in 1..Len(collection) :
            (collection[i].valid_from # None /\ collection[i].valid_to # None)
                => collection[i].valid_from <= collection[i].valid_to

\* C17: every element emitted from a TEMPO group has both bounds, the
\* group's own start and end hour, whatever the other groups state, and
\* every element emitted from the BASE period has no valid_from.
C17_TempoFixedBaseOpen ==
    Parsed =>
        \A n \in 1..Len(TextGroups) :
            LET g == TextGroups[n]
            IN  \A el \in Range(BatchOf(g).elements) :
                    /\ g.kind = "TEMPO" =>
                          /\ el.valid_from # None
                          /\ el.valid_to # None
                          /\ el.valid_from = HourOfDay(g.start[2])
                          /\ el.valid_to = HourOfDay(g.end[2])
                    /\ g.kind = "BASE" => el.valid_from = None

\* C17 witness: a TEMPO 0620/0624 group stating visibility lies between
\* two BECMG groups that state it too, behind a base period with elements;
\* its visibility element keeps the bounds 20 and 24 (hour 0).
C17_Witness ==
    /\ Parsed
    /\ Len(emitted) = 4
    /\ emitted[1].kind = "BASE"
    /\ emitted[1].elements # <<>>
    /\ emitted[2].kind = "BECMG"
    /\ emitted[3].kind = "TEMPO"
    /\ emitted[4].kind = "BECMG"
    /\ \E i \in 1..Len(emitted[3].elements) :
          /\ emitted[3].elements[i].type = "visibility"
          /\ emitted[3].elements[i].valid_from = 20
          /\ emitted[3].elements[i].valid_to = 0
    /\ States(GroupOfBatch(emitted[2]).body, "visibility")
    /\ States(GroupOfBatch(emitted[4]).body, "visibility")

\* ---------------------------------------------------------------------
\* Properties of the report parsers (checked under SpecReports)
\* ---------------------------------------------------------------------

\* C18: every element of an observation has source METAR and no valid_to;
\* every element of a pilot report has source PIREP, starts at the report
\* time and has no valid_to; every element of a warning has source WARNING
\* and neither bound, and filter keeps it for every window when the
\* sources contain WARNING.
C18_Provenance ==
    Parsed =>
        /\ \A i \in 1..Len(collection) :
              LET el == collection[i]
              IN  /\ report.kind = "METAR" =>
                        el.source = "METAR" /\ el.valid_to = None
                  /\ report.kind = "PIREP" =>
                        /\ el.source = "PIREP"
                        /\ el.valid_from = report.report_time
                        /\ el.valid_to = None
                  /\ report.kind = "WARNING" =>
                        /\ el.source = "WARNING"
                        /\ el.valid_from = None
                        /\ el.valid_to = None
        /\ report.kind = "WARNING" =>
              \A w \in Windows, s \in SourceScopes :
                  "WARNING" \in s => filter(collection, w[1], w[2], s) = collection

\* C18 witness: a warning stating a thunderstorm, a visibility, a wind and
\* dust gives four elements, all kept by the phase scope over hour 3.
C18_Witness ==
    /\ Parsed
    /\ report.kind = "WARNING"
    /\ Len(collection) = 4
    /\ filter(collection, 3, 3, PHASE_SOURCES) = collection

\* the cloud elements of the parsed collection, in order
CloudElements == SelectSeq(collection, LAMBDA el : el.type = "cloud")

\* C20: a pilot report gives one cloud element per /SK layer, in order,
\* with height_ft = max(0, height above mean sea level - elevation_ft),
\* so never negative and 0 for a layer reported below the station
\* elevation, and with the coverage and the CB flag of the report.
C20_PirepHeightAgl ==
    (Parsed /\ report.kind = "PIREP") =>
        /\ Len(CloudElements) = Len(report.pirep.sk)
        /\ \A i \in 1..Len(CloudElements) :
              LET layer == report.pirep.sk[i]
                  agl == layer.hundreds * 100 - report.elevation_ft
                  v == CloudElements[i].value
              IN  /\ v.height_ft >= 0
                  /\ agl >= 0 => v.height_ft = agl
                  /\ agl < 0 => v.height_ft = 0
                  /\ v.coverage = layer.coverage
                  /\ v.cb <=> layer.type = "CB"

\* C20 witness: at elevation 2070 ft a CB layer reported at 1000 ft is
\* emitted at 0 ft and a layer reported at 4000 ft at 1930 ft.
C20_Witness ==
    /\ Parsed
    /\ report.kind = "PIREP"
    /\ report.elevation_ft = 2070
    /\ Len(CloudElements) = 2
    /\ CloudElements[1].value = Cloud("OVC", 0, TRUE)
    /\ CloudElements[2].value = Cloud("SCT", 1930, FALSE)

\* ---------------------------------------------------------------------
\* Properties of the wind triangle (checked under SpecWind)
\* ---------------------------------------------------------------------
Called == windCall.ret # <<>>

\* the shortest angular difference of two directions, 0..180 degrees
ShortestAngle(d, h) ==
    LET x == (d - h) % 360
    IN  IF x > 180 THEN 360 - x ELSE x

\* C19: calculate_wind_components works on the shortest angular difference
\* of wind direction and runway heading, the same across north: crosswind
\* = |speed * sin|, never negative, headwind = speed * cos, negative for a
\* tailwind; aligned wind gives (0, speed), wind 90 degrees off on either
\* side (speed, 0), wind 180 degrees off (0, -speed).  For a wind without
\* direction determine_phase takes crosswind = effective speed, headwind 0
\* and tailwind 0.  Components are in millionths of a knot, the reported
\* conditions in tenths.
C19_WindComponents ==
    /\ Called =>
          LET a == ShortestAngle(windCall.wind_dir, windCall.runway_heading)
              s == windCall.wind_speed
              crosswind == windCall.ret[1]
              headwind == windCall.ret[2]
          IN  /\ crosswind = Abs(s * SinMicro(a))
              /\ headwind = s * CosMicro(a)
              /\ crosswind >= 0
              /\ a = 0 => (crosswind = 0 /\ headwind = s * Micro)
              /\ a = 90 => (crosswind = s * Micro /\ headwind = 0)
              /\ a = 180 => (crosswind = 0 /\ headwind = -(s * Micro))
    /\ (Decided /\ resolved.wind.direction = None) =>
          /\ decision.conditions.crosswind = 10 * GustOrSpeed(resolved.wind)
          /\ decision.conditions.headwind = 0
          /\ decision.conditions.tailwind = 0

\* C19 witness: wind 010 at 20 kt on runway 35 is 20 degrees off through
\* north and a headwind.
C19_Witness ==
    /\ Called
    /\ windCall.wind_dir = 10
    /\ windCall.runway_heading = 350
    /\ windCall.ret = <<20 * SinTable[20], 20 * SinTable[70]>>
    /\ windCall.ret[2] > 0

\* ---------------------------------------------------------------------
\* Properties of the free-text searches (checked under SpecReports)
\* ---------------------------------------------------------------------
TextParsed == Parsed /\ report.kind \in {"WARNING_TEXT", "PIREP_TEXT"}

\* the visibility elements of the parsed collection, in order
VisibilityElements == SelectSeq(collection, LAMBDA el : el.type = "visibility")

\* the ways of stating a visibility: alone, next to a sky group, after
\* VIS or VISIBILITY, after VISIBILITY REDUCING, after VISIBILITY REDUCING TO
StatedAfter ==
    { <<>>, <<Word("SKC")>>, <<Tok("BKN", 20, "")>>, <<Word("VIS")>>,
      <<Word("VISIBILITY")>>, <<Word("VISIBILITY"), Word("REDUCING")>>,
      <<Word("VISIBILITY"), Word("REDUCING"), Word("TO")>> }

\* a bare number of metres, a number with M, a number with KM
IsStatedValue(t) ==
    /\ t.w = "" /\ t.n # None
    /\ \/ t.u = "KM"
       \/ (t.u \in {"", "M"} /\ t.n >= 100)

StatedMetres(t) == IF t.u = "KM" THEN t.n * 1000 ELSE t.n

\* the text is one of the ways of stating followed by one value
StatesVisibility(text) ==
    /\ text # <<>>
    /\ SubSeq(text, 1, Len(text) - 1) \in StatedAfter
    /\ IsStatedValue(text[Len(text)])

\* the text is an altimeter group
IsAltimeter(text) == Len(text) = 1 /\ text[1].w = "Q" /\ text[1].n # None

\* C21: from a free text that states a visibility as a bare number, a
\* number with M or a number with KM, alone, next to a sky group, after
\* VIS or VISIBILITY, or after VISIBILITY REDUCING (TO), the warning parser
\* and the pilot report parser extract one visibility element with the
\* stated value in metres; an altimeter group gives no visibility element.
C21_FreeTextVisibility ==
    TextParsed =>
        /\ StatesVisibility(report.text) =>
              /\ Len(VisibilityElements) = 1
              /\ VisibilityElements[1].value.meters
                    = StatedMetres(report.text[Len(report.text)])
        /\ IsAltimeter(report.text) => VisibilityElements = <<>>

\* What the searches do find: a warning that states the value right after
\* VIS or VISIBILITY gives the one element, a pilot report gives one only
\* from its /FV field, and an altimeter group gives none.
C21_AfterVisWord ==
    TextParsed =>
        /\ (report.kind = "WARNING_TEXT" /\ StatesVisibility(report.text)
              /\ Len(report.text) = 2 /\ IsVisWord(report.text[1])) =>
              /\ Len(VisibilityElements) = 1
              /\ VisibilityElements[1].value.meters
                    = StatedMetres(report.text[Len(report.text)])
        /\ (report.kind = "PIREP_TEXT" /\ VisibilityElements # <<>>) =>
              \E i \in 1..Len(report.text) : report.text[i] = Word("/FV")
        /\ IsAltimeter(report.text) => VisibilityElements = <<>>

\* ---------------------------------------------------------------------
\* Properties of the observation parser (checked under SpecReports)
\* ---------------------------------------------------------------------

\* the observation has been read from its text
MetarRead == report.kind = "METAR" /\ "raw" \in DOMAIN report

\* the tokens of the observation section of the text that was read
ObsOfReport == ObsParts(WithoutPrefix(report.raw))

\* a token without its leading signs
Unsigned(token) ==
    LET first == {i \in 1..Len(token) : token[i] \notin {"+", "-"}}
    IN  IF first = {} THEN <<>> ELSE SubSeq(token, MinOf(first), Len(token))

\* the two-character codes of the phenomenon table
PhenomenonCodes == {<<wx_codes[k][1], wx_codes[k][2]>> : k \in 1..Len(wx_codes)}

\* signs apart, an even length between 2 and 8 and every two-character
\* chunk in the table
IsPhenomenonGroup(token) ==
    LET t == Unsigned(token)
    IN  /\ Len(t) \in {2, 4, 6, 8}
        /\ \A k \in 1..(Len(t) \div 2) : <<t[2 * k - 1], t[2 * k]>> \in PhenomenonCodes

\* four letters that are neither a phenomenon group nor AUTO
IsStationToken(token) ==
    /\ Len(token) = 4
    /\ \A i \in 1..4 : token[i] \in Letters
    /\ ~ IsPhenomenonGroup(token)
    /\ token # <<"A", "U", "T", "O">>

\* C22: a token of the observation is classified as a weather phenomenon
\* group exactly when, leading signs apart, its length is even and between
\* 2 and 8 and every two-character chunk is in the phenomenon table; such
\* a token is never the station identifier, also among the first three
\* tokens, and is recorded as a phenomenon; without a station token the
\* station identifier is OEKF.
C22_WeatherTokens ==
    MetarRead =>
        LET m == report.metar
            obs == ObsOfReport
        IN  /\ \A i \in 1..Len(obs) :
                  /\ <<"weather", i>> \in Range(m.consumed)
                        <=> IsPhenomenonGroup(obs[i])
                  /\ IsPhenomenonGroup(obs[i]) =>
                        /\ <<"icao", i>> \notin Range(m.consumed)
                        /\ WeatherAtoms(obs[i]) \in Range(m.weather)
            /\ ~ IsPhenomenonGroup(m.icao)
            /\ (~ \E i \in 1..Min2(3, Len(obs)) : IsStationToken(obs[i])) =>
                  m.icao = <<"O", "E", "K", "F">>

\* C22 witness: BLDU is the second token of an observation without
\* station; it is a phenomenon and the station is OEKF, while the five
\* codes of TSRAGRSNBR are not a phenomenon group.
C22_Witness ==
    /\ MetarRead
    /\ Len(ObsOfReport) = 3
    /\ ObsOfReport[2] = <<"B", "L", "D", "U">>
    /\ Len(ObsOfReport[3]) = 10
    /\ report.metar.icao = <<"O", "E", "K", "F">>
    /\ report.metar.weather = << <<"BL", "DU">> >>

\* the index in the observation section of its timestamp, 0 without one
StampAt ==
    LET ts == {i \in 1..Len(ObsOfReport) : IsTimestamp(ObsOfReport[i])}
    IN  IF ts = {} THEN 0 ELSE MinOf(ts)

\* the tokens of the observation section that follow the timestamp
BodyTokens == SubSeq(ObsOfReport, StampAt + 1, Len(ObsOfReport))

\* the text with the tokens after the timestamp rearranged by f
Rearranged(f) ==
    LET before == Len(report.raw) - Len(WithoutPrefix(report.raw)) + StampAt
        n == Len(BodyTokens)
    IN  SubSeq(report.raw, 1, before)
        \o [i \in 1..n |-> BodyTokens[f[i]]]
        \o SubSeq(report.raw, before + n + 1, Len(report.raw))

\* at most one token of each single-valued kind: wind, variable direction,
\* visibility or CAVOK, temperature and dewpoint, altimeter
SingleValued ==
    \A i, j \in 1..Len(BodyTokens) :
        i # j =>
            ~ \/ (IsWind(BodyTokens[i]) /\ IsWind(BodyTokens[j]))
              \/ (IsVariableWind(BodyTokens[i]) /\ IsVariableWind(BodyTokens[j]))
              \/ (IsVisibility(BodyTokens[i]) /\ IsVisibility(BodyTokens[j]))
              \/ (IsTemperature(BodyTokens[i]) /\ IsTemperature(BodyTokens[j]))
              \/ (IsQnh(BodyTokens[i]) /\ IsQnh(BodyTokens[j]))

\* what an observation reports, the order of phenomena and layers apart
Reported(m) ==
    [ wind |-> <<m.wind_dir, m.wind_speed, m.wind_gust>>,
      visibility_m |-> m.visibility_m,
      cavok |-> m.cavok,
      weather |-> Range(m.weather),
      clouds |-> Range(m.clouds),
      temp |-> m.temp,
      dewpoint |-> m.dewpoint,
      qnh |-> m.qnh ]

\* C23: for an observation with at most one token of each single-valued
\* kind, every rearrangement of the tokens that follow the station and the
\* timestamp parses to the same wind, visibility, CAVOK flag, set of
\* phenomena, set of cloud layers, temperature, dewpoint and altimeter
\* value, and no token is consumed by more than one classification step.
C23_OrderIndependent ==
    (MetarRead /\ StampAt # 0 /\ SingleValued) =>
        /\ \A f \in Permutations(1..Len(BodyTokens)) :
              LET m == METARParser(Rearranged(f))
              IN  /\ Reported(m) = Reported(report.metar)
                  /\ \A j, k \in 1..Len(m.consumed) :
                        j # k => m.consumed[j][2] # m.consumed[k][2]

\* C23 witness: "METAR OEKF 061700Z 33010KT 9999 FEW040" reads the same
\* as "METAR OEKF 061700Z FEW040 9999 33010KT".
C23_Witness ==
    /\ MetarRead
    /\ Len(report.raw) = 6
    /\ IsWind(report.raw[4]) /\ IsVisibility(report.raw[5]) /\ IsCloud(report.raw[6])
    /\ LET m == METARParser(Rearranged(<<3, 2, 1>>))
       IN  /\ Rearranged(<<3, 2, 1>>)[4] = report.raw[6]
           /\ m.wind_speed = 10 /\ m.visibility_m = 10000
           /\ m.clouds = <<PeriodCloud("FEW", 4000, "None")>>
           /\ Reported(m) = Reported(report.metar)

\* ---------------------------------------------------------------------
\* C24: filter and resolve leave the collection they are called on
\* unchanged - the same element objects in the same order with the same
\* fields and values; the collection filter returns is another object
\* than the source, so that adding to it leaves the source as it was; and
\* writing to the wind or to a cloud layer of a resolved result changes no
\* element of the source collection nor of the resolved collection.
\* ---------------------------------------------------------------------
\* the element objects of a collection and what they hold
Contents(hp, self) == <<hp[self].items, ElementsAt(hp, self)>>

C24_ReceiverUnchanged ==
    [][ /\ Contents(heap', collection') = Contents(heap, collection)
        /\ pc' \in {"filtered", "added"} => filtered' # collection'
        /\ pc' \in {"resolved", "modified"} =>
              Contents(heap', filtered') = Contents(heap, filtered) ]_vars

\* a value was written to the wind of a result whose wind came from an
\* element of the collection, after an element was added to the filtered
\* collection; and to a cloud layer
C24_Witness ==
    /\ pc = "modified"
    /\ resolved.wind # None
    /\ heap[resolved.wind].d.speed = 99
    /\ Len(heap[filtered].items) = Len(heap[collection].items) + 1
    /\ Len(heap[collection].items) >= 1

\* ---------------------------------------------------------------------
\* C25: with a bird-strike level of MODERATE or SEVERE the phase after the
\* bird-strike block and after every service impact is none of
\* UNRESTRICTED, RESTRICTED and FS VFR, and both solo flags are false; the
\* block turns exactly these three phases into VFR and keeps the others;
\* and no step after determine_phase, the block or a service impact,
\* makes the phase more permissive in the order UNRESTRICTED < RESTRICTED
\* < FS VFR < VFR < IFR < HOLD < RECALL.
\* ---------------------------------------------------------------------
PhaseOrder == TierOrder \o <<"HOLD", "RECALL">>

Restrictiveness(p) == CHOOSE i \in 1..Len(PhaseOrder) : PhaseOrder[i] = p

Capped == pc = "capped"

C25_BirdCap ==
    /\ [](Capped /\ bird_level \in {"MODERATE", "SEVERE"} =>
              /\ decision.phase \in {"VFR", "IFR", "HOLD", "RECALL"}
              /\ decision.restrictions.solo_cadets = FALSE
              /\ decision.restrictions.first_solo = FALSE)
    /\ [][(Decided /\ Capped' /\ bird_level \in {"MODERATE", "SEVERE"}) =>
              decision'.phase =
                  IF decision.phase \in {"UNRESTRICTED", "RESTRICTED", "FS VFR"}
                  THEN "VFR" ELSE decision.phase]_vars
    /\ [][(Decided \/ Capped) =>
              Restrictiveness(decision'.phase) >= Restrictiveness(decision.phase)]_vars

\* weather that supports UNRESTRICTED, capped to VFR by moderate birds and
\* then raised to RECALL by the services
C25_Witness ==
    /\ Capped
    /\ bird_level = "MODERATE"
    /\ determine_phase(resolved, rHeading, airfield, temp, cavok).phase = "UNRESTRICTED"
    /\ Len(service_impacts) >= 3
    /\ applied = Len(service_impacts)
    /\ decision.phase = "RECALL"

\* ---------------------------------------------------------------------
\* C26: when the phase-scope collection holds a wind element of an
\* effective speed (the gust when there is one, else the sustained speed)
\* above 35 kt whose crosswind on the runway heading is greater than that
\* of every wind element of at most 35 kt, the phase determined from the
\* snapshot resolved with that heading is RECALL.
\* ---------------------------------------------------------------------
\* the wind values of the phase-scope collection above the limit
StrongWinds == {w \in WindValues : GustOrSpeed(w) > 35}

\* some wind above the limit has more crosswind than every weaker wind
StrongWindAcross ==
    \E s \in StrongWinds :
        \A w \in WindValues \ StrongWinds :
            CrosswindOn(s, rHeading) > CrosswindOn(w, rHeading)

C26_StrongCrosswindRecalls ==
    (Decided /\ StrongWindAcross) => decision.phase = "RECALL"

\* C26 as stated: any wind element above 35 kt in the phase-scope
\* collection makes the phase RECALL
C26_AnyStrongWindRecalls ==
    (Decided /\ StrongWinds # {}) => decision.phase = "RECALL"

\* the wind above the limit comes last, after a weaker wind with less
\* crosswind on runway 09, and the phase is RECALL
C26_Witness ==
    /\ Decided
    /\ rHeading = 90
    /\ Len(filtered) = 2
    /\ filtered[1].value = Wind(60, 20, None)
    /\ filtered[2].value = Wind(330, 40, None)
    /\ resolved.wind = Wind(330, 40, None)
    /\ decision.phase = "RECALL"

\* the wind of 40 kt along runway 33 is replaced by the wind of 20 kt
\* across it, and the phase is not RECALL
C26_Masked ==
    /\ Decided
    /\ rHeading = 330
    /\ Wind(330, 40, None) \in WindValues
    /\ resolved.wind = Wind(60, 20, None)
    /\ decision.phase # "RECALL"

\* ---------------------------------------------------------------------
\* C27: when a cloud element of the resolved collection carries the CB
\* flag, the snapshot has has_cb = true, also when an element without the
\* flag lies at the same height with an equal or higher coverage rank.
\* ---------------------------------------------------------------------
C27_CbNeverLost ==
    (Resolved /\ \E c \in CloudValues : c.cb) => resolved.has_cb

\* what does hold: a CB element that is the first of the highest rank at
\* its height gives has_cb = true
C27_CbOfKeptLayer ==
    Resolved =>
        \A i \in 1..Len(filtered) :
            LET el == filtered[i]
            IN  ( /\ el.type = "cloud"
                  /\ el.value.cb
                  /\ \A j \in 1..Len(filtered) :
                        ( /\ filtered[j].type = "cloud"
                          /\ filtered[j].value.height_ft = el.value.height_ft
                          /\ j # i ) =>
                            \/ StatedRank(filtered[j].value.coverage)
                                  < StatedRank(el.value.coverage)
                            \/ ( /\ j > i
                                 /\ StatedRank(filtered[j].value.coverage)
                                       = StatedRank(el.value.coverage) ) )
                => resolved.has_cb

\* OVC without CB then BKN with CB at 1000 ft: the CB layer is dropped
C27_CbDropped ==
    /\ Resolved
    /\ Len(filtered) = 2
    /\ filtered[1].value = Cloud("OVC", 1000, FALSE)
    /\ filtered[2].value = Cloud("BKN", 1000, TRUE)
    /\ ~ resolved.has_cb

\* ---------------------------------------------------------------------
\* C28: when has_cb() of a parsed observation is true (a CB cloud type, a
\* thunderstorm phenomenon, or a cumulonimbus phrase in the remarks), the
\* snapshot resolved from its parse_metar_elements has has_cb = true and
\* determine_phase returns RECALL for it.
\* ---------------------------------------------------------------------
\* the observation text has been read and its elements have been added
MetarParsed == Parsed /\ MetarRead

\* phase_resolved and phase_result for the elements of the observation
SnapshotOfReport == resolve(collection, 330)

PhaseOfReport ==
    determine_phase(SnapshotOfReport, 330, airfield, report.metar.temp,
                    report.metar.cavok).phase

C28_ParserCbRecalls ==
    (MetarParsed /\ has_cb(report.metar)) =>
        /\ SnapshotOfReport.has_cb
        /\ PhaseOfReport = "RECALL"

\* what does hold: a CB cloud group or a thunderstorm group of the
\* observation gives has_cb = true and RECALL
C28_GroupCbRecalls ==
    ( /\ MetarParsed
      /\ \/ \E i \in 1..Len(report.metar.clouds) : report.metar.clouds[i].type = "CB"
         \/ report.metar.has_ts_weather ) =>
        /\ SnapshotOfReport.has_cb
        /\ PhaseOfReport = "RECALL"

\* a cumulonimbus phrase in the remarks only: has_cb() is true, the
\* snapshot has no CB and the phase is not RECALL
C28_RemarkCbLost ==
    /\ MetarParsed
    /\ report.metar.cb_details # <<>>
    /\ has_cb(report.metar)
    /\ ~ SnapshotOfReport.has_cb
    /\ PhaseOfReport # "RECALL"

\* ---------------------------------------------------------------------
\* C29: for every reordering of the elements of a collection, resolve with
\* the same runway heading returns the same visibility, the same weather
\* set, layers at the same heights with a coverage of the same rank at
\* each height, and a wind of the same crosswind on the heading (of the
\* same effective speed without a heading), which is the same wind when
\* only one wind value reaches that maximum.
\* ---------------------------------------------------------------------
\* the collection with its elements in the order f
Reordered(f) == [i \in 1..Len(filtered) |-> filtered[f[i]]]

\* what decides between two winds: the crosswind on the heading, or the
\* effective speed without a heading
WindKey(w) ==
    IF rHeading # None THEN CrosswindOn(w, rHeading) ELSE GustOrSpeed(w) * Micro

\* the wind values that reach the largest key
WorstWinds == {w \in WindValues : \A v \in WindValues : WindKey(w) >= WindKey(v)}

C29_WindByOrder ==
    /\ Resolved
    /\ rHeading = 330
    /\ Len(filtered) = 2
    /\ filtered[1].value = Wind(60, 20, None)
    /\ filtered[2].value = Wind(240, 20, None)
    /\ resolved.wind = Wind(60, 20, None)
    /\ resolve(Reordered(<<2, 1>>), 330).wind = Wind(240, 20, None)

\* ---------------------------------------------------------------------
\* C30: for a snapshot without visibility determine_phase returns HOLD or
\* RECALL, whatever the wind, the cloud layers, the temperature and the
\* airfield configuration.
\* ---------------------------------------------------------------------
C30_NoVisibilityNoTier ==
    (Decided /\ resolved.visibility_m = None) =>
        decision.phase \in {"HOLD", "RECALL"}

\* no visibility, no cloud, no wind, no temperature: every other criterion
\* of every tier passes, and the phase is HOLD by the fallback
C30_Witness ==
    /\ Decided
    /\ resolved.visibility_m = None
    /\ resolved.clouds = <<>>
    /\ resolved.wind = Absent
    /\ ~ resolved.has_cb
    /\ temp = None
    /\ decision.phase = "HOLD"
    /\ decision.reasons = << "Weather below IFR minimums" >>
    /\ \A i \in 1..Len(decision.checks) :
          \A j \in 2..Len(decision.checks[i][2]) : decision.checks[i][2][j][2]

====
